---- MODULE Spec2Model ----
(***************************************************************************)
(* A model of the Boots cosmetics scraping scripts: the ingredient text    *)
(* clean-up, scrape_boots_product's retry loop, the thread pool of         *)
(* cosmetics_scraper.main, the selector cascades and BootsScraper's        *)
(* navigate_with_retry.                                                    *)
(*                                                                         *)
(* Python values: an Optional is the empty tuple (None) or a 1-tuple       *)
(* holding the value; a str is a TLA+ string, read character by character  *)
(* with Ch; a list is a sequence, except main's three result lists, whose  *)
(* order (the order in which futures complete) nothing reads: each is the  *)
(* bag of its elements.                                                    *)
(***************************************************************************)
EXTENDS Integers, Sequences, FiniteSets, Bags, TLC

VARIABLES
    \* ---- the scraper's ingredient counting (cosmetics_scraper.py 246-255)
    ingredients,        \* product_data['ingredients']: Optional str
    ingredients_count,  \* product_data['ingredients_count']: Optional int
    ingredients_list,   \* product_data['ingredients_list']: Optional list (None: key absent)
    tpc,                \* "extracted" before the counting block, "counted" after it
    \* ---- one call of scrape_boots_product (cosmetics_scraper.py 169-429)
    url,                \* the url argument
    product_data,       \* the record being filled
    retries,            \* the retry counter
    spc,                \* "idle" before the call, "loop" in the while loop, "returned"
    requests,           \* requests.get calls made so far
    parsed,             \* some attempt got a 200 response and began extracting
    extracted,          \* the fields some attempt obtained a value for
    \* ---- the executor of cosmetics_scraper.main (lines 644-690)
    submitted,          \* how many of remaining_urls have been submitted
    started,            \* how many submitted tasks a worker has taken (FIFO work queue)
    running,            \* the tasks whose scrape_boots_product call is executing
    done,               \* finished future not yet collected -> the record its call returned
    collected,          \* the futures the result loop has processed
    meaningful,         \* those of them whose call returned a meaningful record
    all_product_data,   \* list of records, as a bag
    failed_urls,        \* list of urls, as a bag
    redirect_urls,      \* list of urls, as a bag
    loaded,             \* the records read from the progress file, as a bag
    \* ---- a selector cascade of scrape_with_extended_timeout (lines 916-947)
    cfield,             \* the field the cascade fills: "product_name" or "brand"
    soup,               \* selector index -> what select_one finds: None or the element's text
    cidx,               \* index of the selector the for loop tries next
    cvalue,             \* product_data[cfield]
    consulted,          \* the selectors select_one has been called with, in order
    cpc,                \* "idle", "loop", "done"
    \* ---- BootsScraper.navigate_with_retry (boots_advanced_scraper.py 377-445)
    respect_robots,     \* self.respect_robots; self.robots_checker exists exactly when it is set
    self_max_retries,   \* self.max_retries
    stats,              \* self.stats: pages_visited, errors, retries
    visited_urls,       \* self.visited_urls
    goto_log,           \* the urls page.goto was called with
    sleeps,             \* asyncio.sleep calls so far
    ncalls,             \* calls of navigate_with_retry so far
    nurl,               \* the url argument of the current call
    max_retries,        \* the local max_retries of the current call
    attempt,            \* the for loop's attempt
    gotos,              \* page.goto calls of the current call
    outcomes,           \* per attempt of the current call: "ok" or "failed"
    waits,              \* failed attempt -> the backoff slept after it, in tenths of a second
    nret,               \* the value returned: None or True
    npc,                \* "idle", "loop", "returned"
    \* ---- BootsScraper.run (boots_advanced_scraper.py 1356-1411)
    max_categories,             \* the argument: None or an int
    max_products_per_category,  \* the argument: None or an int
    max_total_products,         \* the argument: None or an int
    categories_left,    \* how many of category_urls the for loop has yet to visit
    self_product_urls,  \* self.product_urls
    found,              \* what the last find_product_urls call returned
    found_max,          \* the max_products that call was given
    found_cards,        \* how many urls that call took from the product cards
    found_links,        \* how many distinct product links the page it read had
    to_scrape,          \* scrape_all_products' product_urls list: the urls yet to scrape
    scrape_calls,       \* the urls scrape_product has been called with, in order
    rpc,                \* "idle", "categories", "scraping", "done"
    \* ---- BootsScraper.standardize_ingredient (boots_advanced_scraper.py 1167-1197)
    ingredient,         \* the argument
    standardized,       \* None before the call, then the name returned
    \* ---- the start of cosmetics_scraper.main: resuming (lines 582-654)
    csv_column,         \* the 'oct-link href 2' column of the input CSV: a url or NaN (None) per row
    progress_file,      \* None: no progress file; else the list of records in it
    product_urls,       \* what read_product_urls_from_boots_csv returned
    kept_records,       \* all_product_data after the loading block
    processed_urls,     \* the urls of the records kept
    remaining_urls,     \* the urls left to scrape
    future_to_url,      \* the urls given to executor.submit, in order
    main_pc,            \* "idle", "start", "read", "loaded", "submitted", "exit"
    \* ---- main of improved_boots_5star_scraper.py (563-642) and of
    \* ---- boots_product_extractor.py (507-596)
    script,             \* "improved" or "extractor"
    arg_max_products,   \* --max-products: None or an int
    arg_batch_size,     \* --batch-size
    arg_resume_from,    \* --resume-from
    urls_file,          \* --urls-file: None, or the number of non-blank lines of the file
    listed,             \* how many 5-star products the live listing has
    num_products,       \* len(product_urls)
    num_batches,        \* the local num_batches
    batch_idx,          \* the for loop's batch_idx
    processed,          \* the indices of the products handed to the page scraper, in order
    launch_failures,    \* batches whose browser could not be set up
    bpc,                \* "idle", "start", "loop", "returned 0", "returned 1"
    \* ---- main of extract_boots_5star_products.py (132-266)
    urls_found,         \* len(product_urls) as loaded or extracted
    x_max_products,     \* args.max_products: None or an int
    x_batch_size,       \* args.batch_size
    x_resume_from,      \* args.resume_from, a 1-based batch number
    total_batches,      \* the local total_batches
    batch_number,       \* the for loop's batch_number
    attempted,          \* the process_batch calls: batch number and value returned
    successful_batches, \* the local counter
    failed_batches,     \* the local counter
    main_raised,        \* an exception reached main's except block
    exit_code,          \* None while running, then the value main returns
    xpc,                \* "idle", "start", "loop", "returned"
    \* ---- batch_fix_ingredients.process_batch (lines 53-82)
    batch_df,           \* the rows of the batch
    results,            \* the list of dicts built so far
    success_count,      \* the local counter
    \* ---- cosmetics_scraper.save_product_data (lines 550-567)
    heap,               \* the dict objects: heap[i] is the dict with identity i
    product_data_list,  \* the list passed in: identities of its dicts
    product_data_copy,  \* save_to_csv's local list: identities
    originals,          \* ghost: the dicts of product_data_list at the call
    csv_file,           \* the rows written to the CSV, None before
    json_file,          \* the records dumped to the JSON file, None before
    save_pc,
    \* ---- cosmetics_scraper.main, the executor block with its pause (lines 648-684)
    url_total,          \* len(remaining_urls)
    not_started,        \* futures no worker thread has taken yet
    delaying,           \* worker threads in the random delay before the request
    requesting,         \* worker threads inside requests.get
    completed,          \* futures done that as_completed has not yielded yet
    yielded,            \* results the for loop has taken: the next i
    main_at,            \* where main is
    requested_in_pause, \* ghost: a request was sent during the current pause
    \* ---- the batch loops of batch_fix_ingredients.main, scrape_5star_boots_products
    \* ---- and run_5star_scraper
    loop_script,        \* which of the three loops runs
    loop_total,         \* total_rows / total_products
    loop_batch_size,    \* batch_size / args.batch_size
    loop_resume_from,   \* args.resume_from (0 for batch_fix_ingredients)
    start_index,        \* i / start_index
    batches_done,       \* the batches processed so far, each the items of its slice
    total_processed,    \* the count of processed items
    batch_raised,       \* a batch raised an exception
    loop_pc

textVars == <<ingredients, ingredients_count, ingredients_list, tpc>>
scrapeVars == <<url, product_data, retries, spc, requests, parsed, extracted>>
poolVars == <<submitted, started, running, done, collected, meaningful,
              all_product_data, failed_urls, redirect_urls, loaded>>
cascVars == <<cfield, soup, cidx, cvalue, consulted, cpc>>
navVars == <<respect_robots, self_max_retries, stats, visited_urls, goto_log, sleeps, ncalls,
             nurl, max_retries, attempt, gotos, outcomes, waits, nret, npc>>

coreVars == <<textVars, scrapeVars, poolVars, cascVars, navVars>>
runVars == <<max_categories, max_products_per_category, max_total_products, categories_left,
             self_product_urls, found, found_max, found_cards, found_links, to_scrape, scrape_calls, rpc>>
stdVars == <<ingredient, standardized>>
resumeVars == <<csv_column, progress_file, product_urls, kept_records, processed_urls,
                remaining_urls, future_to_url, main_pc>>
batchVars == <<script, arg_max_products, arg_batch_size, arg_resume_from, urls_file, listed,
               num_products, num_batches, batch_idx, processed, launch_failures, bpc>>
extractVars == <<urls_found, x_max_products, x_batch_size, x_resume_from, total_batches,
                 batch_number, attempted, successful_batches, failed_batches, main_raised,
                 exit_code, xpc>>
fixVars == <<batch_df, results, success_count>>
saveVars == <<heap, product_data_list, product_data_copy, originals, csv_file, json_file, save_pc>>
pauseVars == <<url_total, not_started, delaying, requesting, completed, yielded, main_at, requested_in_pause>>
loopVars == <<loop_script, loop_total, loop_batch_size, loop_resume_from, start_index, batches_done, total_processed, batch_raised, loop_pc>>
laterVars == <<runVars, stdVars, resumeVars, batchVars, extractVars, fixVars, saveVars, pauseVars, loopVars>>

\* what the actions of each later subsystem leave alone
notRunVars == <<coreVars, stdVars, resumeVars, batchVars, extractVars, fixVars, saveVars, pauseVars, loopVars>>
notStdVars == <<coreVars, runVars, resumeVars, batchVars, extractVars, fixVars, saveVars, pauseVars, loopVars>>
notResumeVars == <<coreVars, runVars, stdVars, batchVars, extractVars, fixVars, saveVars, pauseVars, loopVars>>
notBatchVars == <<coreVars, runVars, stdVars, resumeVars, extractVars, fixVars, saveVars, pauseVars, loopVars>>
notExtractVars == <<coreVars, runVars, stdVars, resumeVars, batchVars, fixVars, saveVars, pauseVars, loopVars>>
notFixVars == <<coreVars, runVars, stdVars, resumeVars, batchVars, extractVars, saveVars, pauseVars, loopVars>>
notSaveVars == <<coreVars, runVars, stdVars, resumeVars, batchVars, extractVars, fixVars, pauseVars, loopVars>>
notPauseVars == <<coreVars, runVars, stdVars, resumeVars, batchVars, extractVars, fixVars, saveVars, loopVars>>
notLoopVars == <<coreVars, runVars, stdVars, resumeVars, batchVars, extractVars, fixVars, saveVars, pauseVars>>

vars == <<coreVars, laterVars>>

None == <<>>
Some(v) == <<v>>
IsNone(o) == o = <<>>
Val(o) == o[1]

\* ------------------------------------------------------------------------
\* Strings
\* ------------------------------------------------------------------------

Ch(s, i) == SubSeq(s, i, i)

UpperChars == "ABCDEFGHIJKLMNOPQRSTUVWXYZ"
LowerChars == "abcdefghijklmnopqrstuvwxyz"
DigitChars == "0123456789"

CharsOf(s) == {Ch(s, i) : i \in 1..Len(s)}

UpperSet == CharsOf(UpperChars)
WordSet == CharsOf(UpperChars) \cup CharsOf(LowerChars) \cup CharsOf(DigitChars) \cup {"_"}

\* \w of Python's re on the model's (ASCII) texts
IsWordChar(c) == c \in WordSet

\* what str.strip() and \s treat as whitespace
IsSpace(c) == c \in {" ", "\t", "\n"}

\* re.IGNORECASE compares case-folded characters
Lower(c) ==
    IF c \in UpperSet
    THEN Ch(LowerChars, CHOOSE k \in 1..Len(UpperChars) : Ch(UpperChars, k) = c)
    ELSE c

\* the literal w (given in lower case) matches s at position i, ignoring case
RECURSIVE MatchCI(_, _, _)
MatchCI(s, i, w) ==
    IF w = "" THEN TRUE
    ELSE /\ i <= Len(s)
         /\ Lower(Ch(s, i)) = Ch(w, 1)
         /\ MatchCI(s, i + 1, SubSeq(w, 2, Len(w)))

\* \b between positions p-1 and p of s
WordBoundary(s, p) ==
    LET before == p > 1 /\ p - 1 <= Len(s) /\ IsWordChar(Ch(s, p - 1))
        after  == p >= 1 /\ p <= Len(s) /\ IsWordChar(Ch(s, p))
    IN before /= after

\* str.strip()
RECURSIVE LStrip(_)
LStrip(s) == IF s /= "" /\ IsSpace(Ch(s, 1)) THEN LStrip(SubSeq(s, 2, Len(s))) ELSE s

RECURSIVE RStrip(_)
RStrip(s) == IF s /= "" /\ IsSpace(Ch(s, Len(s))) THEN RStrip(SubSeq(s, 1, Len(s) - 1)) ELSE s

Strip(s) == RStrip(LStrip(s))

\* str.split(','): the segments between the commas, empty ones included
RECURSIVE SplitFrom(_, _, _)
SplitFrom(s, i, cur) ==
    IF i > Len(s) THEN <<cur>>
    ELSE IF Ch(s, i) = "," THEN <<cur>> \o SplitFrom(s, i + 1, "")
    ELSE SplitFrom(s, i + 1, cur \o Ch(s, i))

SplitComma(s) == SplitFrom(s, 1, "")

\* ------------------------------------------------------------------------
\* cosmetics_scraper.py: counting the ingredients of a scraped page
\* ------------------------------------------------------------------------

\* Length of the match of
\*   ingredients:|\bingrédients:|\bingredients\b|:|\*|\+|\.
\* at position i (re.IGNORECASE), 0 when no alternative matches there.  The
\* alternatives are tried in the pattern's order.  The second alternative
\* needs an e-acute, which no text of the model holds.
MarkerLenAt(s, i) ==
    IF MatchCI(s, i, "ingredients:") THEN 12
    ELSE IF WordBoundary(s, i) /\ MatchCI(s, i, "ingredients") /\ WordBoundary(s, i + 11) THEN 11
    ELSE IF Ch(s, i) \in {":", "*", "+", "."} THEN 1
    ELSE 0

\* re.sub(<the marker pattern>, '', s, flags=re.IGNORECASE)
RECURSIVE RemoveFrom(_, _)
RemoveFrom(s, i) ==
    IF i > Len(s) THEN ""
    ELSE LET n == MarkerLenAt(s, i)
         IN IF n > 0 THEN RemoveFrom(s, i + n)
            ELSE Ch(s, i) \o RemoveFrom(s, i + 1)

RemoveMarkers(s) == RemoveFrom(s, 1)

\* the list comprehension without its "if ing.strip()" filter
RECURSIVE StripKeepEmpty(_)
StripKeepEmpty(parts) ==
    IF parts = <<>> THEN <<>> ELSE <<Strip(Head(parts))>> \o StripKeepEmpty(Tail(parts))

\* [ing.strip() for ing in parts if ing.strip()]
RECURSIVE StripNonEmpty(_)
StripNonEmpty(parts) ==
    IF parts = <<>> THEN <<>>
    ELSE LET ing == Strip(Head(parts))
         IN (IF ing /= "" THEN <<ing>> ELSE <<>>) \o StripNonEmpty(Tail(parts))

\* lines 251-253: the list the scraper builds from a truthy ingredients text
ScraperIngredientsList(text) == StripNonEmpty(SplitComma(RemoveMarkers(text)))

\* ---- the texts extract_ingredients may hand to the counting block

MaxFrags == 3

\* pieces of page text; a text of the model is up to MaxFrags of them in a row
Frags == {"ingredients", "Ingredients:", "Aqua", ",", " ", ".", "x", "*"}

RECURSIVE Texts(_)
Texts(n) ==
    IF n = 0 THEN {""}
    ELSE LET prev == Texts(n - 1)
         IN prev \cup {t \o f : t \in prev, f \in Frags}

\* the sample texts of test_ingredients_list.py
Sample1 == "INGREDIENTS: Water, Glycerin, Alcohol, Parfum, Sodium Laureth Sulfate"
Sample2 == "Aqua, Cetearyl Alcohol, Glycerin, Dimethicone, Panthenol"
Sample3 == "Ingredients: Aqua/Water/Eau, Glycerin, Alcohol Denat., Dimethicone"

\* extract_ingredients returns None, or a str: the validated paths return a
\* text with a comma, the JSON-LD path returns match.group(1).strip(), which
\* may be the empty string; every path strips the text it returns
ExtractedTexts ==
    {None} \cup {Some(t) : t \in {x \in Texts(MaxFrags) : Strip(x) = x} \cup {Sample1, Sample2, Sample3}}

TextStart ==
    /\ ingredients \in ExtractedTexts
    /\ ingredients_count = None
    /\ ingredients_list = None
    /\ tpc = "extracted"

TextIdle ==
    /\ ingredients = None
    /\ ingredients_count = None
    /\ ingredients_list = None
    /\ tpc = "idle"

\* Python truthiness of an Optional str
Truthy(o) == ~IsNone(o) /\ Val(o) /= ""

\* scrape_boots_product, lines 247-255
CountIngredients ==
    /\ tpc = "extracted"
    /\ tpc' = "counted"
    /\ IF Truthy(ingredients)
       THEN LET lst == ScraperIngredientsList(Val(ingredients))
            IN /\ ingredients_count' = Some(Len(lst))
               /\ ingredients_list' = Some(lst)
       ELSE UNCHANGED <<ingredients_count, ingredients_list>>
    /\ UNCHANGED ingredients
    /\ UNCHANGED <<scrapeVars, poolVars, cascVars, navVars, laterVars>>

\* ------------------------------------------------------------------------
\* cosmetics_scraper.py: scrape_boots_product
\* ------------------------------------------------------------------------

MAX_RETRIES == 3

\* the model follows a call for at most this many requests
MaxRequests == 5

\* the record with a count that starts at 0 instead of None
NewProductDataZeroCount(u) ==
    [url |-> Some(u),
     product_name |-> None,
     brand |-> None,
     ingredients |-> None,
     ingredients_count |-> Some(0),
     ingredients_list |-> None,
     country_of_origin |-> None,
     hazards_and_cautions |-> None,
     how_to_use |-> None,
     product_details |-> None,
     scrape_timestamp |-> Some("now")]

\* lines 181-192 (scrape_timestamp is the time of the call)
NewProductData(u) ==
    [url |-> Some(u),
     product_name |-> None,
     brand |-> None,
     ingredients |-> None,
     ingredients_count |-> None,
     ingredients_list |-> None,
     country_of_origin |-> None,
     hazards_and_cautions |-> None,
     how_to_use |-> None,
     product_details |-> None,
     scrape_timestamp |-> Some("now")]

\* the keys the extraction fills
DataFields ==
    {"product_name", "brand", "ingredients", "ingredients_count", "ingredients_list",
     "country_of_origin", "hazards_and_cautions", "how_to_use", "product_details"}

ProductUrls == {"https://www.boots.com/p1", "https://www.boots.com/p2"}

\* What a fetched page gives each extraction: name and brand are None when
\* select_one finds no element and otherwise the element's stripped text
\* (a Tag is truthy whatever its text); ingredients is extract_ingredients'
\* result; rest stands for the country, hazards, usage and details sections.
Pages ==
    [name : {None, Some(""), Some("Serum")},
     brand : {None, Some("No7")},
     ingredients : {None, Some(""), Some("Ingredients: Aqua, Glycerin.")},
     rest : {None, Some("text")}]

\* the extraction statements of one pass, in order
ExtractSteps == 7

\* product_data after statement k of the extraction has run on page pg
ExtractStep(pd, pg, k) ==
    CASE k = 1 -> IF ~IsNone(pg.name) THEN [pd EXCEPT !.product_name = pg.name] ELSE pd
      [] k = 2 -> IF ~IsNone(pg.brand) THEN [pd EXCEPT !.brand = pg.brand] ELSE pd
      [] k = 3 -> IF Truthy(pg.ingredients)
                  THEN LET lst == ScraperIngredientsList(Val(pg.ingredients))
                       IN [pd EXCEPT !.ingredients = pg.ingredients,
                                     !.ingredients_count = Some(Len(lst)),
                                     !.ingredients_list = Some(lst)]
                  ELSE [pd EXCEPT !.ingredients = pg.ingredients]
      [] k = 4 -> IF ~IsNone(pg.rest) THEN [pd EXCEPT !.country_of_origin = pg.rest] ELSE pd
      [] k = 5 -> [pd EXCEPT !.hazards_and_cautions = pg.rest]
      [] k = 6 -> [pd EXCEPT !.how_to_use = pg.rest]
      [] k = 7 -> [pd EXCEPT !.product_details = pg.rest]

\* lines 235-414 up to and including statement n
RECURSIVE ExtractUpTo(_, _, _)
ExtractUpTo(pd, pg, n) ==
    IF n = 0 THEN pd ELSE ExtractStep(ExtractUpTo(pd, pg, n - 1), pg, n)

\* the fields the first n statements obtained a value for
ObtainedUpTo(pg, n) ==
    {f \in DataFields :
        \/ f = "product_name" /\ n >= 1 /\ ~IsNone(pg.name)
        \/ f = "brand" /\ n >= 2 /\ ~IsNone(pg.brand)
        \/ f = "ingredients" /\ n >= 3 /\ ~IsNone(pg.ingredients)
        \/ f \in {"ingredients_count", "ingredients_list"} /\ n >= 3 /\ Truthy(pg.ingredients)
        \/ f = "country_of_origin" /\ n >= 4 /\ ~IsNone(pg.rest)
        \/ f = "hazards_and_cautions" /\ n >= 5 /\ ~IsNone(pg.rest)
        \/ f = "how_to_use" /\ n >= 6 /\ ~IsNone(pg.rest)
        \/ f = "product_details" /\ n >= 7 /\ ~IsNone(pg.rest)}

\* line 417 (and line 663 of main): the record holds something worth keeping
Meaningful(pd) == Truthy(pd.product_name) \/ Truthy(pd.brand) \/ Truthy(pd.ingredients)

ScrapeIdle ==
    /\ url = ""
    /\ product_data = NewProductData("")
    /\ retries = 0
    /\ spc = "idle"
    /\ requests = 0
    /\ parsed = FALSE
    /\ extracted = {}

\* the call: lines 181-195
ScrapeCall(u) ==
    /\ spc = "idle"
    /\ url' = u
    /\ product_data' = NewProductData(u)
    /\ retries' = 0
    /\ spc' = "loop"
    /\ UNCHANGED <<requests, parsed, extracted>>
    /\ UNCHANGED <<textVars, poolVars, cascVars, navVars, laterVars>>

\* line 197
InLoop == spc = "loop" /\ retries < MAX_RETRIES /\ requests < MaxRequests

\* a pass in which time.sleep or requests.get raises: lines 198-216, 424-427
PassRequestRaises(sent) ==
    /\ InLoop
    /\ requests' = requests + (IF sent THEN 1 ELSE 0)
    /\ retries' = retries + 1
    /\ UNCHANGED <<url, product_data, spc, parsed, extracted>>
    /\ UNCHANGED <<textVars, poolVars, cascVars, navVars, laterVars>>

\* the 429 branch without its "retries += 1"
PassRateLimitedUncounted ==
    /\ spc = "loop" /\ retries < MAX_RETRIES /\ requests < MaxRequests
    /\ requests' = requests + 1
    /\ UNCHANGED <<url, product_data, retries, spc, parsed, extracted>>
    /\ UNCHANGED <<textVars, poolVars, cascVars, navVars, laterVars>>

\* a pass that gets status 429: lines 219-223
PassRateLimited ==
    /\ InLoop
    /\ requests' = requests + 1
    /\ retries' = retries + 1
    /\ UNCHANGED <<url, product_data, spc, parsed, extracted>>
    /\ UNCHANGED <<textVars, poolVars, cascVars, navVars, laterVars>>

\* a pass that gets another status than 200: lines 226-230
PassBadStatus ==
    /\ InLoop
    /\ requests' = requests + 1
    /\ retries' = retries + 1
    /\ UNCHANGED <<url, product_data, spc, parsed, extracted>>
    /\ UNCHANGED <<textVars, poolVars, cascVars, navVars, laterVars>>

\* a pass that gets a 200 and raises after n extraction statements:
\* lines 233-414, 424-427
PassExtractRaises(pg, n) ==
    /\ InLoop
    /\ requests' = requests + 1
    /\ parsed' = TRUE
    /\ product_data' = ExtractUpTo(product_data, pg, n)
    /\ extracted' = extracted \cup ObtainedUpTo(pg, n)
    /\ retries' = retries + 1
    /\ UNCHANGED <<url, spc>>
    /\ UNCHANGED <<textVars, poolVars, cascVars, navVars, laterVars>>

\* a pass that gets a 200 and extracts to the end: lines 233-422
PassExtracted(pg) ==
    /\ InLoop
    /\ requests' = requests + 1
    /\ parsed' = TRUE
    /\ product_data' = ExtractUpTo(product_data, pg, ExtractSteps)
    /\ extracted' = extracted \cup ObtainedUpTo(pg, ExtractSteps)
    /\ IF Meaningful(product_data')
       THEN spc' = "returned" /\ UNCHANGED retries
       ELSE retries' = retries + 1 /\ UNCHANGED spc
    /\ UNCHANGED url
    /\ UNCHANGED <<textVars, poolVars, cascVars, navVars, laterVars>>

\* line 429: the loop is left with the retries used up
ReturnExhausted ==
    /\ spc = "loop"
    /\ ~(retries < MAX_RETRIES)
    /\ spc' = "returned"
    /\ UNCHANGED <<url, product_data, retries, requests, parsed, extracted>>
    /\ UNCHANGED <<textVars, poolVars, cascVars, navVars, laterVars>>

ScrapeNext ==
    \/ \E u \in ProductUrls : ScrapeCall(u)
    \/ \E sent \in BOOLEAN : PassRequestRaises(sent)
    \/ PassRateLimited
    \/ PassBadStatus
    \/ \E pg \in Pages, n \in 0..(ExtractSteps - 1) : PassExtractRaises(pg, n)
    \/ \E pg \in Pages : PassExtracted(pg)
    \/ ReturnExhausted

\* ------------------------------------------------------------------------
\* cosmetics_scraper.py: main's thread pool and result loop
\* ------------------------------------------------------------------------

MAX_WORKERS == 4
SAVE_INTERVAL == 10

\* len(remaining_urls)
NumUrls == 5

\* remaining_urls[k-1]; some are of the old servlet form
RemainingUrl(k) ==
    IF k % 2 = 0
    THEN "https://www.boots.com/webapp/wcs/stores/servlet/ProductDisplay?productId=" \o ToString(k)
    ELSE "https://www.boots.com/product-" \o ToString(k)

\* sub in s
Contains(s, sub) ==
    \E i \in 1..(Len(s) - Len(sub) + 1) : SubSeq(s, i, i + Len(sub) - 1) = sub

\* the records a call of scrape_boots_product may return for url u: one a
\* pass found meaningful, or the record left when the retries are used up
ReturnedRecords(u) ==
    {NewProductData(u),
     [NewProductData(u) EXCEPT !.product_name = Some("")],
     [NewProductData(u) EXCEPT !.product_name = Some("Serum"), !.brand = Some("No7")]}

\* the progress file's records (lines 609-627)
LoadedRecords ==
    {SetToBag({[NewProductData("https://www.boots.com/product-0") EXCEPT !.product_name = Some("Cream")]})}

\* list.append(x)
BagAppend(list, x) == list (+) SetToBag({x})

PoolIdle ==
    /\ submitted = 0
    /\ started = 0
    /\ running = {}
    /\ done = <<>>
    /\ collected = {}
    /\ meaningful = {}
    /\ all_product_data = EmptyBag
    /\ failed_urls = EmptyBag
    /\ redirect_urls = EmptyBag
    /\ loaded = EmptyBag

\* lines 604-646: main up to the with statement
PoolStart ==
    /\ submitted = 0
    /\ started = 0
    /\ running = {}
    /\ done = <<>>
    /\ collected = {}
    /\ meaningful = {}
    /\ loaded \in LoadedRecords
    /\ all_product_data = loaded
    /\ failed_urls = EmptyBag
    /\ redirect_urls = EmptyBag

\* lines 651-654: executor.submit of the next url
Submit ==
    /\ submitted < NumUrls
    /\ submitted' = submitted + 1
    /\ UNCHANGED <<started, running, done, collected, meaningful,
                   all_product_data, failed_urls, redirect_urls, loaded>>
    /\ UNCHANGED <<textVars, scrapeVars, cascVars, navVars, laterVars>>

\* the executor never uses more than max_workers threads
WorkerAlwaysFree == TRUE

\* line 649: ThreadPoolExecutor(max_workers=MAX_WORKERS) has a thread free
WorkerFree == Cardinality(running) < MAX_WORKERS

\* a worker thread takes the oldest waiting task and calls scrape_boots_product
WorkerTake ==
    /\ WorkerFree
    /\ started < submitted
    /\ started' = started + 1
    /\ running' = running \cup {started + 1}
    /\ UNCHANGED <<submitted, done, collected, meaningful,
                   all_product_data, failed_urls, redirect_urls, loaded>>
    /\ UNCHANGED <<textVars, scrapeVars, cascVars, navVars, laterVars>>

\* the call of task k returns record r and the future completes
WorkerFinish(k, r) ==
    /\ k \in running
    /\ running' = running \ {k}
    /\ done' = (k :> r) @@ done
    /\ UNCHANGED <<submitted, started, collected, meaningful,
                   all_product_data, failed_urls, redirect_urls, loaded>>
    /\ UNCHANGED <<textVars, scrapeVars, cascVars, navVars, laterVars>>

\* the check with "is not None" in place of truthiness
MainKeepsNotNone(pd) ==
    ~IsNone(pd.product_name) \/ ~IsNone(pd.brand) \/ ~IsNone(pd.ingredients)

\* line 663
MainKeeps(pd) ==
    Truthy(pd.product_name) \/ Truthy(pd.brand) \/ Truthy(pd.ingredients)

\* line 667
IsRedirectUrl(u) == Contains(u, "webapp/wcs/stores/servlet/ProductDisplay")

\* lines 657-690: one round of the result loop, for completed future k.  exc
\* tells where the round raises: "log" when opening the log file fails after
\* the url was appended, "save" when save_product_data fails.
Collect(k, exc) ==
    LET i == Cardinality(collected)
        u == RemainingUrl(k)
        pd == done[k]
        keeps == MainKeeps(pd)
        redirect == ~keeps /\ IsRedirectUrl(u)
        saves == (i + 1) % SAVE_INTERVAL = 0
        raised == exc /= "none"
    IN /\ submitted = NumUrls
       /\ k \in DOMAIN done
       /\ k \notin collected
       /\ exc = "log" => ~keeps
       /\ exc = "save" => saves
       /\ collected' = collected \cup {k}
       /\ meaningful' = IF Meaningful(pd) THEN meaningful \cup {k} ELSE meaningful
       /\ done' = [j \in DOMAIN done \ {k} |-> done[j]]
       /\ all_product_data' = IF keeps THEN BagAppend(all_product_data, pd) ELSE all_product_data
       /\ redirect_urls' = IF redirect THEN BagAppend(redirect_urls, u) ELSE redirect_urls
       /\ failed_urls' =
            LET branch == IF ~keeps /\ ~redirect THEN BagAppend(failed_urls, u) ELSE failed_urls
            IN IF raised THEN BagAppend(branch, u) ELSE branch
       /\ UNCHANGED <<submitted, started, running, loaded>>
       /\ UNCHANGED <<textVars, scrapeVars, cascVars, navVars, laterVars>>

PoolNext ==
    \/ Submit
    \/ WorkerTake
    \/ \E k \in 1..NumUrls : \E r \in ReturnedRecords(RemainingUrl(k)) : WorkerFinish(k, r)
    \/ \E k \in 1..NumUrls, exc \in {"none", "log", "save"} : Collect(k, exc)

\* ------------------------------------------------------------------------
\* cosmetics_scraper.py: the selector cascades of scrape_with_extended_timeout
\* ------------------------------------------------------------------------

\* lines 917-923
product_name_selectors ==
    <<"h1.product-details-tile__title", "h1.product-title", "h1.product-name",
      "h1.product__title", "title">>

\* lines 936-941
brand_selectors ==
    <<"a.product-details-tile__brand", ".product-brand", ".brand-name", ".product-info__brand">>

Selectors(field) == IF field = "product_name" THEN product_name_selectors ELSE brand_selectors

\* position after the run of whitespace that starts at i
RECURSIVE SkipSpaces(_, _)
SkipSpaces(s, i) == IF i <= Len(s) /\ IsSpace(Ch(s, i)) THEN SkipSpaces(s, i + 1) ELSE i

\* \s*\|\s*Boots matches s at position i (what follows, .*$, matches any
\* rest of a one-line text)
BootsSuffixAt(s, i) ==
    LET bar == SkipSpaces(s, i)
        word == SkipSpaces(s, bar + 1)
    IN /\ bar <= Len(s)
       /\ Ch(s, bar) = "|"
       /\ word + 4 <= Len(s)
       /\ SubSeq(s, word, word + 4) = "Boots"

\* line 931: re.sub(r'\s*\|\s*Boots.*$', '', s), the leftmost match removed
CleanTitle(s) ==
    LET hits == {i \in 1..Len(s) : BootsSuffixAt(s, i)}
    IN IF hits = {} THEN s
       ELSE LET first == CHOOSE i \in hits : \A j \in hits : i <= j
            IN SubSeq(s, 1, first - 1)

\* what select_one(selector) may find on a page: no element, or an element
\* whose text is empty, blank or a name (the page title ends in the shop's name)
ElementTexts(sel) ==
    IF sel = "title"
    THEN {None, Some(""), Some(" | Boots"), Some("Hydrating Serum | Boots")}
    ELSE {None, Some(" "), Some("text of " \o sel)}

SoupsFor(field) ==
    LET sels == Selectors(field)
    IN {sp \in [1..Len(sels) -> UNION {ElementTexts(sels[i]) : i \in 1..Len(sels)}] :
            \A i \in 1..Len(sels) : sp[i] \in ElementTexts(sels[i])}

\* lines 928-932 and 946: the value a found element gives the field
FieldValue(sel, text) ==
    LET stripped == Strip(text)
    IN IF sel = "title" THEN CleanTitle(stripped) ELSE stripped

CascadeIdle ==
    /\ cfield = "product_name"
    /\ soup = <<>>
    /\ cidx = 1
    /\ cvalue = None
    /\ consulted = <<>>
    /\ cpc = "idle"

\* lines 889-912: the record is created and the page fetched and parsed
CascadeBegin(field, sp) ==
    /\ cpc = "idle"
    /\ cfield' = field
    /\ soup' = sp
    /\ cidx' = 1
    /\ cvalue' = None
    /\ consulted' = <<>>
    /\ cpc' = "loop"
    /\ UNCHANGED <<textVars, scrapeVars, poolVars, navVars, laterVars>>

\* lines 925-933 and 943-947: one round of the for loop
TrySelector ==
    /\ cpc = "loop"
    /\ cidx <= Len(Selectors(cfield))
    /\ LET sel == Selectors(cfield)[cidx]
           elem == soup[cidx]
       IN /\ consulted' = Append(consulted, cidx)
          /\ IF ~IsNone(elem)
             THEN /\ cvalue' = Some(FieldValue(sel, Val(elem)))
                  /\ cpc' = "done"
                  /\ UNCHANGED cidx
             ELSE /\ cidx' = cidx + 1
                  /\ UNCHANGED <<cvalue, cpc>>
    /\ UNCHANGED <<cfield, soup>>
    /\ UNCHANGED <<textVars, scrapeVars, poolVars, navVars, laterVars>>

\* the for loop ends with every selector tried
CascadeExhausted ==
    /\ cpc = "loop"
    /\ cidx > Len(Selectors(cfield))
    /\ cpc' = "done"
    /\ UNCHANGED <<cfield, soup, cidx, cvalue, consulted>>
    /\ UNCHANGED <<textVars, scrapeVars, poolVars, navVars, laterVars>>

CascadeNext ==
    \/ \E field \in {"product_name", "brand"} : \E sp \in SoupsFor(field) : CascadeBegin(field, sp)
    \/ TrySelector
    \/ CascadeExhausted

\* ------------------------------------------------------------------------
\* backup/boots_advanced_scraper.py: BootsScraper.navigate_with_retry
\* ------------------------------------------------------------------------

\* the calls the model follows
MaxNavCalls == 2

\* the largest --max-retries the model starts a scraper with
MaxRetriesArg == 2

NavUrls ==
    {"https://www.boots.com/beauty/skincare",
     "https://www.boots.com/product-1",
     "https://www.boots.com/checkout"}

\* the urls robots.txt closes to every user agent
RobotsDisallowed == {"https://www.boots.com/checkout"}

\* RobotsChecker.is_allowed, lines 176-192
is_allowed(u) == u \notin RobotsDisallowed

\* the call goes on without asking robots.txt
RobotsNeverBlocks(u) == FALSE

\* line 392
RobotsBlocks(u) == respect_robots /\ ~is_allowed(u)

\* line 402: range(max_retries + 1)
Attempts(mr) == mr + 1

\* random.uniform(1, 3), in tenths: the least and the greatest draw
UniformFactors == {10, 30}

\* the backoff that grows linearly
BackoffLinear(k, factor) == 2 * k * factor

\* line 440: 2 ** attempt * random.uniform(1, 3), in tenths of a second
Backoff(k, factor) == (2 ^ k) * factor

NavIdle ==
    /\ respect_robots = TRUE
    /\ self_max_retries = 3
    /\ stats = [pages_visited |-> 0, errors |-> 0, retries |-> 0]
    /\ visited_urls = {}
    /\ goto_log = {}
    /\ sleeps = 0
    /\ ncalls = 0
    /\ nurl = ""
    /\ max_retries = 0
    /\ attempt = 0
    /\ gotos = 0
    /\ outcomes = <<>>
    /\ waits = <<>>
    /\ nret = None
    /\ npc = "idle"

\* BootsScraper.__init__, lines 221-257
NavStart ==
    /\ respect_robots \in BOOLEAN
    /\ self_max_retries \in -1..MaxRetriesArg
    /\ stats = [pages_visited |-> 0, errors |-> 0, retries |-> 0]
    /\ visited_urls = {}
    /\ goto_log = {}
    /\ sleeps = 0
    /\ ncalls = 0
    /\ nurl = ""
    /\ max_retries = 0
    /\ attempt = 0
    /\ gotos = 0
    /\ outcomes = <<>>
    /\ waits = <<>>
    /\ nret = None
    /\ npc = "idle"

\* lines 388-402: the call up to the for loop; mr is the max_retries argument
NavCall(u, mr) ==
    /\ npc \in {"idle", "returned"}
    /\ ncalls < MaxNavCalls
    /\ ncalls' = ncalls + 1
    /\ nurl' = u
    /\ max_retries' = IF IsNone(mr) THEN self_max_retries ELSE Val(mr)
    /\ attempt' = 0
    /\ gotos' = 0
    /\ outcomes' = <<>>
    /\ waits' = <<>>
    /\ nret' = None
    /\ IF RobotsBlocks(u)
       THEN npc' = "returned" /\ UNCHANGED sleeps
       ELSE npc' = "loop" /\ sleeps' = sleeps + 1
    /\ UNCHANGED <<respect_robots, self_max_retries, stats, visited_urls, goto_log>>
    /\ UNCHANGED <<textVars, scrapeVars, poolVars, cascVars, laterVars>>

\* the attempt without its "return True": the loop goes on
AttemptSucceedsNoReturn ==
    /\ npc = "loop"
    /\ attempt < Attempts(max_retries)
    /\ gotos' = gotos + 1
    /\ goto_log' = goto_log \cup {nurl}
    /\ stats' = [stats EXCEPT !.pages_visited = @ + 1]
    /\ visited_urls' = visited_urls \cup {nurl}
    /\ outcomes' = Append(outcomes, "ok")
    /\ attempt' = attempt + 1
    /\ UNCHANGED <<respect_robots, self_max_retries, sleeps, ncalls, nurl, max_retries,
                   waits, nret, npc>>
    /\ UNCHANGED <<textVars, scrapeVars, poolVars, cascVars, laterVars>>

\* lines 403-433: an attempt that runs to "return True"
AttemptSucceeds ==
    /\ npc = "loop"
    /\ attempt < Attempts(max_retries)
    /\ gotos' = gotos + 1
    /\ goto_log' = goto_log \cup {nurl}
    /\ stats' = [stats EXCEPT !.pages_visited = @ + 1]
    /\ visited_urls' = visited_urls \cup {nurl}
    /\ outcomes' = Append(outcomes, "ok")
    /\ nret' = Some(TRUE)
    /\ npc' = "returned"
    /\ UNCHANGED <<respect_robots, self_max_retries, sleeps, ncalls, nurl, max_retries,
                   attempt, waits>>
    /\ UNCHANGED <<textVars, scrapeVars, poolVars, cascVars, laterVars>>

\* lines 403-445: an attempt that raises.  at tells where: "rotate" before
\* page.goto, "goto" in page.goto or the wait for the load state, "screenshot"
\* after the statistics were updated.  factor is the draw of random.uniform.
AttemptFails(at, factor) ==
    /\ npc = "loop"
    /\ attempt < Attempts(max_retries)
    /\ gotos' = IF at = "rotate" THEN gotos ELSE gotos + 1
    /\ goto_log' = IF at = "rotate" THEN goto_log ELSE goto_log \cup {nurl}
    /\ visited_urls' = IF at = "screenshot" THEN visited_urls \cup {nurl} ELSE visited_urls
    /\ outcomes' = Append(outcomes, "failed")
    /\ LET visited == IF at = "screenshot" THEN 1 ELSE 0
       IN IF attempt < max_retries
          THEN /\ stats' = [stats EXCEPT !.pages_visited = @ + visited,
                                         !.errors = @ + 1, !.retries = @ + 1]
               /\ waits' = (attempt :> Backoff(attempt, factor)) @@ waits
               /\ sleeps' = sleeps + 1
               /\ attempt' = attempt + 1
               /\ UNCHANGED <<nret, npc>>
          ELSE /\ stats' = [stats EXCEPT !.pages_visited = @ + visited, !.errors = @ + 1]
               /\ nret' = None
               /\ npc' = "returned"
               /\ UNCHANGED <<waits, sleeps, attempt>>
    /\ UNCHANGED <<respect_robots, self_max_retries, ncalls, nurl, max_retries>>
    /\ UNCHANGED <<textVars, scrapeVars, poolVars, cascVars, laterVars>>

\* line 402: the range is used up and the function falls off its end
LoopEnds ==
    /\ npc = "loop"
    /\ ~(attempt < Attempts(max_retries))
    /\ nret' = None
    /\ npc' = "returned"
    /\ UNCHANGED <<respect_robots, self_max_retries, stats, visited_urls, goto_log, sleeps,
                   ncalls, nurl, max_retries, attempt, gotos, outcomes, waits>>
    /\ UNCHANGED <<textVars, scrapeVars, poolVars, cascVars, laterVars>>

NavNext ==
    \/ \E u \in NavUrls, mr \in {None, Some(1)} : NavCall(u, mr)
    \/ AttemptSucceeds
    \/ \E at \in {"rotate", "goto", "screenshot"}, factor \in UniformFactors : AttemptFails(at, factor)
    \/ LoopEnds

\* ------------------------------------------------------------------------
\* BootsScraper.run: the category loop, find_product_urls and
\* scrape_all_products (boots_advanced_scraper.py)
\* ------------------------------------------------------------------------

\* how many category urls find_category_urls returns at most
NumCategories == 2
\* how many <a href> elements a category page has at most
MaxLinks == 3
\* the greatest value given to run's three limits
MaxLimit == 2

BASE_URL == "https://www.boots.com"

\* the href attributes found on the category pages
Hrefs ==
    {"/p/101",
     "https://www.boots.com/no7-serum-102",
     "/product/serum",
     "/beauty/skincare/serums"}

\* str.startswith
StartsWith(s, w) == Len(s) >= Len(w) /\ SubSeq(s, 1, Len(w)) = w

\* urljoin(BASE_URL, href) for an href that starts with '/'
urljoin(base, href) == base \o href

\* urlparse(url).path for the urls of the site
UrlPath(u) == IF StartsWith(u, BASE_URL) THEN SubSeq(u, Len(BASE_URL) + 1, Len(u)) ELSE u

DigitSet == CharsOf(DigitChars)
SlugSet == CharsOf(LowerChars) \cup CharsOf(DigitChars) \cup {"-"}

\* s[i..j] is a non-empty run of characters of cs
RunOf(s, i, j, cs) == i <= j /\ \A k \in i..j : Ch(s, k) \in cs
\* s[i..j] matches [^/]+
NoSlash(s, i, j) == i <= j /\ \A k \in i..j : Ch(s, k) /= "/"
\* the literal w stands in s at position i
LitAt(s, i, w) == i + Len(w) - 1 <= Len(s) /\ SubSeq(s, i, i + Len(w) - 1) = w

\* BootsScraper.is_product_url, lines 667-691: the five re.search patterns on
\* the path
MatchesProductPattern(u) ==
    LET path == UrlPath(u)
        n == Len(path)
        Slashes == {i \in 1..n : Ch(path, i) = "/"}
    IN \/ \E i \in Slashes : RunOf(path, i + 1, n, DigitSet)
       \/ \E i \in Slashes : \E j \in (i + 2)..n :
             /\ Ch(path, j) = "-"
             /\ RunOf(path, j + 1, n, DigitSet)
             /\ RunOf(path, i + 1, j - 1, SlugSet)
       \/ \E i \in Slashes : \E j \in {k \in Slashes : k >= i + 18} :
             /\ LitAt(path, i, "/beauty/skincare/")
             /\ NoSlash(path, i + 17, j - 1)
             /\ NoSlash(path, j + 1, n)
       \/ \E i \in Slashes : \E j \in {k \in Slashes : k >= i + 2} :
             \E k \in {m \in Slashes : m >= j + 2} :
                /\ NoSlash(path, i + 1, j - 1)
                /\ NoSlash(path, j + 1, k - 1)
                /\ RunOf(path, k + 1, n, DigitSet)
       \/ \E i \in Slashes : LitAt(path, i, "/product/") /\ NoSlash(path, i + 9, n)

\* lines 617-618 and 635-636: "Ensure it's an absolute URL"
Absolute(href) == IF StartsWith(href, "/") THEN urljoin(BASE_URL, href) ELSE href

\* the urls the hrefs of the pages stand for
PageUrls == {Absolute(h) : h \in Hrefs}

\* is_product_url on each of them, computed once
ProductUrlTable == [u \in PageUrls |-> MatchesProductPattern(u)]

\* BootsScraper.is_product_url
is_product_url(u) == ProductUrlTable[u]

\* an <a href> of a category page; card: it is the first link of a product card
Links == [href : Hrefs, card : BOOLEAN]

\* soup.find_all('a', href=True) of a category page, in document order
CategoryPages == UNION {[1..n -> Links] : n \in 0..MaxLinks}

\* the links the loop over product_cards reads (lines 611-614)
CardLinks(page) == SelectSeq(page, LAMBDA l : l.card)

\* Python truthiness of an Optional int
TruthyInt(o) == ~IsNone(o) /\ Val(o) /= 0

Min(a, b) == IF a <= b THEN a ELSE b

\* find_product_urls, lines 611-626: the loop over the product cards
RECURSIVE ScanCards(_, _, _, _)
ScanCards(cards, i, urls, M) ==
    IF i > Len(cards) THEN urls
    ELSE LET href == Absolute(cards[i].href)
         IN IF is_product_url(href)
            THEN LET added == urls \cup {href}
                 IN IF TruthyInt(M) /\ Cardinality(added) >= Val(M)
                    THEN added
                    ELSE ScanCards(cards, i + 1, added, M)
            ELSE ScanCards(cards, i + 1, urls, M)

\* find_product_urls, lines 633-647: the loop over all the links of the page
RECURSIVE ScanLinks(_, _, _, _)
ScanLinks(links, i, urls, M) ==
    IF i > Len(links) THEN urls
    ELSE LET href == Absolute(links[i].href)
         IN IF is_product_url(href) /\ href \notin urls
            THEN LET added == urls \cup {href}
                 IN IF TruthyInt(M) /\ Cardinality(added) >= Val(M)
                    THEN added
                    ELSE ScanLinks(links, i + 1, added, M)
            ELSE ScanLinks(links, i + 1, urls, M)

\* a find_product_urls that takes every product link of the page
FindEveryLink(page, M) == ScanLinks(page, 1, {}, None)

\* find_product_urls, lines 603-654: the set it returns once the page has loaded
find_product_urls(page, M) ==
    LET fromCards == ScanCards(CardLinks(page), 1, {}, M)
    IN IF ~TruthyInt(M) \/ Cardinality(fromCards) < Val(M)
       THEN ScanLinks(page, 1, fromCards, M)
       ELSE fromCards

\* a scrape_all_products that ignores max_products
WholeList(urls, mp) == {urls}

\* scrape_all_products, lines 1345-1347: list(self.product_urls)[:max_products];
\* the order in which a set of str is listed is not fixed, so the slice is any
\* subset of that size
SlicedList(urls, mp) ==
    IF TruthyInt(mp)
    THEN {S \in SUBSET urls : Cardinality(S) = Min(Cardinality(urls), Val(mp))}
    ELSE {urls}

Limits == {None} \cup {Some(n) : n \in 0..MaxLimit}

RunIdle ==
    /\ max_categories = None
    /\ max_products_per_category = None
    /\ max_total_products = None
    /\ categories_left = 0
    /\ self_product_urls = {}
    /\ found = {}
    /\ found_max = None
    /\ found_cards = 0
    /\ found_links = 0
    /\ to_scrape = {}
    /\ scrape_calls = <<>>
    /\ rpc = "idle"

\* run, lines 1356-1376: ncat category urls were found
RunCall(mc, mpc, mt, ncat) ==
    /\ rpc = "idle"
    /\ rpc' = "categories"
    /\ max_categories' = mc
    /\ max_products_per_category' = mpc
    /\ max_total_products' = mt
    /\ categories_left' = IF TruthyInt(mc) THEN Min(ncat, Val(mc)) ELSE ncat
    /\ UNCHANGED <<self_product_urls, found, found_max, found_cards, found_links, to_scrape, scrape_calls>>
    /\ UNCHANGED notRunVars

\* run, line 1381
TotalReached ==
    TruthyInt(max_total_products) /\ Cardinality(self_product_urls) >= Val(max_total_products)

\* run, lines 1385-1395: the max_products given to find_product_urls
CategoryLimit ==
    LET remaining_products ==
            IF TruthyInt(max_total_products)
            THEN Some(Val(max_total_products) - Cardinality(self_product_urls))
            ELSE None
    IN IF TruthyInt(max_products_per_category) /\ TruthyInt(remaining_products)
       THEN Some(Min(Val(max_products_per_category), Val(remaining_products)))
       ELSE max_products_per_category

\* what one find_product_urls call makes of the page it reads: the set it
\* returns, how many of those urls the cards gave, and how many product links
\* the page had
Reading(page, M) ==
    [urls  |-> find_product_urls(page, M),
     cards |-> Cardinality(ScanCards(CardLinks(page), 1, {}, M)),
     links |-> Cardinality(ScanLinks(page, 1, {}, None))]

\* the readings of all the category pages under each limit, computed once
Readings == [M \in Limits |-> {Reading(page, M) : page \in CategoryPages}]

\* one pass of the for loop of run whose find_product_urls call reads a page
VisitCategory(r) ==
    /\ rpc = "categories"
    /\ categories_left > 0
    /\ ~TotalReached
    /\ found' = r.urls
    /\ self_product_urls' = self_product_urls \cup r.urls
    /\ found_max' = CategoryLimit
    /\ found_cards' = r.cards
    /\ found_links' = r.links
    /\ categories_left' = categories_left - 1
    /\ UNCHANGED <<max_categories, max_products_per_category, max_total_products,
                   to_scrape, scrape_calls, rpc>>
    /\ UNCHANGED notRunVars

\* one pass whose navigate_with_retry fails: find_product_urls returns set()
\* at line 589
VisitCategoryFails ==
    /\ rpc = "categories"
    /\ categories_left > 0
    /\ ~TotalReached
    /\ found' = {}
    /\ found_max' = CategoryLimit
    /\ found_cards' = 0
    /\ found_links' = 0
    /\ categories_left' = categories_left - 1
    /\ UNCHANGED <<max_categories, max_products_per_category, max_total_products,
                   self_product_urls, to_scrape, scrape_calls, rpc>>
    /\ UNCHANGED notRunVars

\* the for loop ends or breaks; scrape_all_products builds its list
BeginScrapeAll ==
    /\ rpc = "categories"
    /\ categories_left = 0 \/ TotalReached
    /\ rpc' = "scraping"
    /\ to_scrape' \in SlicedList(self_product_urls, max_total_products)
    /\ UNCHANGED <<max_categories, max_products_per_category, max_total_products,
                   categories_left, self_product_urls, found, found_max, found_cards, found_links,
                   scrape_calls>>
    /\ UNCHANGED notRunVars

\* scrape_all_products, lines 1349-1351: the next url of the list
ScrapeProduct(u) ==
    /\ rpc = "scraping"
    /\ u \in to_scrape
    /\ to_scrape' = to_scrape \ {u}
    /\ scrape_calls' = Append(scrape_calls, u)
    /\ UNCHANGED <<max_categories, max_products_per_category, max_total_products,
                   categories_left, self_product_urls, found, found_max, found_cards, found_links, rpc>>
    /\ UNCHANGED notRunVars

\* an exception in the try block of run: caught at line 1403
RunRaises ==
    /\ rpc \in {"categories", "scraping"}
    /\ rpc' = "done"
    /\ UNCHANGED <<max_categories, max_products_per_category, max_total_products,
                   categories_left, self_product_urls, found, found_max, found_cards, found_links,
                   to_scrape, scrape_calls>>
    /\ UNCHANGED notRunVars

\* the list is exhausted: save_data, then the finally block
RunReturns ==
    /\ rpc = "scraping"
    /\ to_scrape = {}
    /\ rpc' = "done"
    /\ UNCHANGED <<max_categories, max_products_per_category, max_total_products,
                   categories_left, self_product_urls, found, found_max, found_cards, found_links,
                   to_scrape, scrape_calls>>
    /\ UNCHANGED notRunVars

RunNext ==
    \/ \E mc \in Limits, mpc \in Limits, mt \in Limits, ncat \in 0..NumCategories :
          RunCall(mc, mpc, mt, ncat)
    \/ \E r \in Readings[CategoryLimit] : VisitCategory(r)
    \/ VisitCategoryFails
    \/ BeginScrapeAll
    \/ \E u \in to_scrape : ScrapeProduct(u)
    \/ RunRaises
    \/ RunReturns

\* ------------------------------------------------------------------------
\* BootsScraper.standardize_ingredient (boots_advanced_scraper.py)
\* ------------------------------------------------------------------------

\* lines 36-71
INGREDIENT_STANDARDIZATION ==
    ("aqua" :> "Water") @@ ("water" :> "Water") @@
    ("glycerin" :> "Glycerin") @@ ("glycerine" :> "Glycerin") @@
    ("sodium chloride" :> "Sodium Chloride") @@ ("salt" :> "Sodium Chloride") @@
    ("tocopherol" :> "Vitamin E") @@ ("tocopheryl acetate" :> "Vitamin E Acetate") @@
    ("retinol" :> "Vitamin A") @@ ("retinyl palmitate" :> "Vitamin A Palmitate") @@
    ("ascorbic acid" :> "Vitamin C") @@
    ("sodium ascorbyl phosphate" :> "Vitamin C Derivative") @@
    ("niacinamide" :> "Vitamin B3") @@ ("panthenol" :> "Provitamin B5") @@
    ("sodium hyaluronate" :> "Hyaluronic Acid") @@
    ("hyaluronic acid" :> "Hyaluronic Acid") @@
    ("aloe barbadensis leaf juice" :> "Aloe Vera") @@ ("aloe vera" :> "Aloe Vera") @@
    ("butyrospermum parkii butter" :> "Shea Butter") @@ ("shea butter" :> "Shea Butter") @@
    ("cocos nucifera oil" :> "Coconut Oil") @@ ("coconut oil" :> "Coconut Oil") @@
    ("simmondsia chinensis seed oil" :> "Jojoba Oil") @@ ("jojoba oil" :> "Jojoba Oil") @@
    ("rosa canina fruit oil" :> "Rosehip Oil") @@ ("rosehip oil" :> "Rosehip Oil") @@
    ("argania spinosa kernel oil" :> "Argan Oil") @@ ("argan oil" :> "Argan Oil") @@
    ("sodium laureth sulfate" :> "Sodium Laureth Sulfate (SLES)") @@
    ("sodium lauryl sulfate" :> "Sodium Lauryl Sulfate (SLS)") @@
    ("parfum" :> "Fragrance") @@ ("fragrance" :> "Fragrance") @@
    ("ci" :> "Color Index")

\* lines 73-99
INGREDIENT_PREFIXES ==
    <<"sodium", "potassium", "magnesium", "calcium", "zinc", "iron", "copper",
      "manganese", "aluminum", "titanium", "silica", "hydrogenated", "hydrolyzed",
      "polyethylene", "polysorbate", "peg", "ppg", "cetyl", "cetearyl", "stearyl",
      "lauryl", "myristyl", "caprylic", "glyceryl">>

\* lines 102-121
INGREDIENT_SUFFIXES ==
    <<"extract", "oil", "butter", "wax", "acid", "alcohol", "glucoside", "glycol",
      "sulfate", "phosphate", "stearate", "palmitate", "benzoate", "salicylate",
      "caprylate", "sorbate", "glycinate", "citrate">>

LowerSet == CharsOf(LowerChars)

Upper(c) ==
    IF c \in LowerSet
    THEN Ch(UpperChars, CHOOSE k \in 1..Len(LowerChars) : Ch(LowerChars, k) = c)
    ELSE c

\* str.lower()
RECURSIVE LowerStr(_)
LowerStr(s) == IF s = "" THEN "" ELSE Lower(Ch(s, 1)) \o LowerStr(SubSeq(s, 2, Len(s)))

\* str.upper()
RECURSIVE UpperStr(_)
UpperStr(s) == IF s = "" THEN "" ELSE Upper(Ch(s, 1)) \o UpperStr(SubSeq(s, 2, Len(s)))

\* str.capitalize()
Capitalize(s) == IF s = "" THEN "" ELSE Upper(Ch(s, 1)) \o LowerStr(SubSeq(s, 2, Len(s)))

\* str.endswith
EndsWith(s, w) == Len(s) >= Len(w) /\ SubSeq(s, Len(s) - Len(w) + 1, Len(s)) = w

\* lines 1182-1185: the first prefix of the list the name starts with, or 0
PrefixOf(ingredient_lower) ==
    LET hits == {k \in 1..Len(INGREDIENT_PREFIXES) :
                    StartsWith(ingredient_lower, INGREDIENT_PREFIXES[k] \o " ")}
    IN IF hits = {} THEN 0 ELSE CHOOSE k \in hits : \A m \in hits : k <= m

\* lines 1187-1190: the first suffix of the list the name ends with, or 0
SuffixOf(ingredient_lower) ==
    LET hits == {k \in 1..Len(INGREDIENT_SUFFIXES) :
                    EndsWith(ingredient_lower, " " \o INGREDIENT_SUFFIXES[k])}
    IN IF hits = {} THEN 0 ELSE CHOOSE k \in hits : \A m \in hits : k <= m

\* lines 1182-1194: the prefix rule, the suffix rule, else the name itself
AffixRules(ing) ==
    LET ingredient_lower == LowerStr(ing)
        p == PrefixOf(ingredient_lower)
        x == SuffixOf(ingredient_lower)
    IN IF p /= 0
       THEN LET prefix == INGREDIENT_PREFIXES[p]
            IN Capitalize(prefix) \o " " \o Strip(SubSeq(ing, Len(prefix) + 2, Len(ing)))
       ELSE IF x /= 0
       THEN LET suffix == INGREDIENT_SUFFIXES[x]
            IN Strip(SubSeq(ing, 1, Len(ing) - (Len(suffix) + 1))) \o " " \o suffix
       ELSE ing

\* a standardize_ingredient that tries the prefix and suffix rules first
AffixRulesFirst(ing) ==
    IF PrefixOf(LowerStr(ing)) /= 0 \/ SuffixOf(LowerStr(ing)) /= 0
    THEN AffixRules(ing)
    ELSE IF LowerStr(ing) \in DOMAIN INGREDIENT_STANDARDIZATION
    THEN INGREDIENT_STANDARDIZATION[LowerStr(ing)]
    ELSE ing

\* standardize_ingredient, lines 1167-1197
standardize_ingredient(ing) ==
    LET ingredient_lower == LowerStr(ing)
    IN IF ingredient_lower \in DOMAIN INGREDIENT_STANDARDIZATION
       THEN INGREDIENT_STANDARDIZATION[ingredient_lower]
       ELSE AffixRules(ing)

\* ingredient names as parse_ingredients passes them (stripped, non-empty):
\* every key of the table in lower case, in upper case and capitalized, and
\* names that are no key
IngredientNames ==
    UNION {{k, UpperStr(k), Capitalize(k)} : k \in DOMAIN INGREDIENT_STANDARDIZATION}
    \cup {"Sodium Benzoate", "sodium  pca", "PEG 100 Stearate", "Rose Extract",
          "ROSE EXTRACT", "citric Acid", "Sodium Cetearyl Sulfate", "Limonene",
          "aquas", "Waters", "Sodium", "oil"}

StdIdle ==
    /\ ingredient = ""
    /\ standardized = None

StdStart ==
    /\ ingredient \in IngredientNames
    /\ standardized = None

\* one call of standardize_ingredient
Standardize ==
    /\ ingredient /= ""
    /\ standardized = None
    /\ standardized' = Some(standardize_ingredient(ingredient))
    /\ UNCHANGED ingredient
    /\ UNCHANGED notStdVars

StdNext == Standardize

\* ------------------------------------------------------------------------
\* cosmetics_scraper.main: what a resumed run submits (lines 582-654)
\* ------------------------------------------------------------------------

\* rows of the input CSV at most
MaxCsvRows == 3
\* records in the progress file at most
MaxProgress == 2

CsvUrls ==
    {"https://www.boots.com/serum-10001",
     "https://www.boots.com/cream-10002",
     "https://www.boots.com/webapp/wcs/stores/servlet/ProductDisplay?productId=3"}

\* the column of the input CSV: a url or NaN per row
CsvColumns == UNION {[1..n -> {None} \cup {Some(u) : u \in CsvUrls}] : n \in 0..MaxCsvRows}

\* a record of the progress file: its 'url' key (None: the key is absent)
ProgressRecords == [url : {None} \cup {Some(u) : u \in CsvUrls}]

ProgressFiles ==
    {None} \cup {Some(recs) : recs \in UNION {[1..n -> ProgressRecords] : n \in 0..MaxProgress}}

\* Series.dropna().unique().tolist(), line 470: the values that are not NaN,
\* each once, in the order of first appearance
RECURSIVE DropNaUnique(_, _, _)
DropNaUnique(col, i, acc) ==
    IF i > Len(col) THEN acc
    ELSE IF IsNone(col[i]) \/ (\E k \in 1..Len(acc) : acc[k] = Val(col[i]))
    THEN DropNaUnique(col, i + 1, acc)
    ELSE DropNaUnique(col, i + 1, Append(acc, Val(col[i])))

\* line 624: {product['url'] for product in all_product_data if 'url' in product}
UrlsOf(records) == {Val(records[k].url) : k \in {j \in 1..Len(records) : ~IsNone(records[j].url)}}

\* a filter that keeps every url
RemainingAll(urls, seen) == urls

\* line 641: [url for url in product_urls if url not in processed_urls]
RemainingOf(urls, seen) == SelectSeq(urls, LAMBDA u : u \notin seen)

\* how often u stands in the list
Occurrences(lst, u) == Cardinality({k \in 1..Len(lst) : lst[k] = u})

ResumeIdle ==
    /\ csv_column = <<>>
    /\ progress_file = None
    /\ product_urls = <<>>
    /\ kept_records = <<>>
    /\ processed_urls = {}
    /\ remaining_urls = <<>>
    /\ future_to_url = <<>>
    /\ main_pc = "idle"

ResumeStart ==
    /\ csv_column \in CsvColumns
    /\ progress_file \in ProgressFiles
    /\ product_urls = <<>>
    /\ kept_records = <<>>
    /\ processed_urls = {}
    /\ remaining_urls = <<>>
    /\ future_to_url = <<>>
    /\ main_pc = "start"

\* main, lines 586-590: read the urls; return when there are none
ReadProductUrls ==
    /\ main_pc = "start"
    /\ product_urls' = DropNaUnique(csv_column, 1, <<>>)
    /\ main_pc' = IF product_urls' = <<>> THEN "exit" ELSE "read"
    /\ UNCHANGED <<csv_column, progress_file, kept_records, processed_urls,
                   remaining_urls, future_to_url>>
    /\ UNCHANGED notResumeVars

\* main, lines 604-642: load the progress file, then filter the urls.
\* raises: something in the try block (json.load, the ingredients fix-up, the
\* backup copy) raised, and the except block starts from scratch
LoadProgress(raises) ==
    /\ main_pc = "read"
    /\ raises => ~IsNone(progress_file)
    /\ kept_records' = IF IsNone(progress_file) \/ raises THEN <<>> ELSE Val(progress_file)
    /\ processed_urls' = UrlsOf(kept_records')
    /\ remaining_urls' = RemainingOf(product_urls, processed_urls')
    /\ main_pc' = "loaded"
    /\ UNCHANGED <<csv_column, progress_file, product_urls, future_to_url>>
    /\ UNCHANGED notResumeVars

\* main, lines 651-654: the dict comprehension submits the next remaining url
SubmitRemaining ==
    /\ main_pc = "loaded"
    /\ Len(future_to_url) < Len(remaining_urls)
    /\ future_to_url' = Append(future_to_url, remaining_urls[Len(future_to_url) + 1])
    /\ UNCHANGED <<csv_column, progress_file, product_urls, kept_records, processed_urls,
                   remaining_urls, main_pc>>
    /\ UNCHANGED notResumeVars

\* the comprehension is through
AllSubmitted ==
    /\ main_pc = "loaded"
    /\ Len(future_to_url) = Len(remaining_urls)
    /\ main_pc' = "submitted"
    /\ UNCHANGED <<csv_column, progress_file, product_urls, kept_records, processed_urls,
                   remaining_urls, future_to_url>>
    /\ UNCHANGED notResumeVars

ResumeNext ==
    \/ ReadProductUrls
    \/ \E raises \in BOOLEAN : LoadProgress(raises)
    \/ SubmitRemaining
    \/ AllSubmitted

\* ------------------------------------------------------------------------
\* The batch loops of improved_boots_5star_scraper.main and
\* boots_product_extractor.main
\* ------------------------------------------------------------------------

\* product urls at most, in the urls file or on the listing page
MaxItems == 3
\* the greatest --batch-size
MaxBatchSize == 2
\* the greatest --max-products
MaxProductsArg == 2

\* improved_boots_5star_scraper.find_5star_product_urls, line 150
products_per_page == 24

\* floor division of non-negative ints
FloorDiv(a, b) == a \div b

\* find_5star_product_urls(headless, max_products) of the improved scraper:
\* max_products only shortens the scrolling (lines 145-151); every product
\* link of the page as loaded goes into the list returned (lines 190-300).
\* The page loads products_per_page products at first and with each scroll.
find_5star_product_urls(on_listing, max_products) ==
    LET total_products == IF TruthyInt(max_products)
                          THEN Min(on_listing, Val(max_products))
                          ELSE on_listing
        num_scrolls == FloorDiv(total_products, products_per_page) + 1
    IN Min(on_listing, products_per_page * (1 + num_scrolls))

\* boots_product_extractor.main, lines 548-550: the slice to --max-products
LimitToMax(n, max_products) ==
    IF TruthyInt(max_products) /\ n > Val(max_products) THEN Val(max_products) ELSE n

\* lines 599-601 (improved) and 553-555 (extractor)
NumBatches(n, start_idx, batch_size) == FloorDiv(n - start_idx + batch_size - 1, batch_size)

\* process_product_batch, lines 509-511: the indices of batch_urls
BatchIndices(n, batch_index, batch_size) ==
    LET start_idx == batch_index * batch_size
        end_idx == Min(start_idx + batch_size, n)
    IN [k \in 1..(IF end_idx > start_idx THEN end_idx - start_idx ELSE 0) |-> start_idx + k - 1]

BatchIdle ==
    /\ script = "improved"
    /\ arg_max_products = None
    /\ arg_batch_size = 1
    /\ arg_resume_from = 0
    /\ urls_file = None
    /\ listed = 0
    /\ num_products = 0
    /\ num_batches = 0
    /\ batch_idx = 0
    /\ processed = <<>>
    /\ launch_failures = 0
    /\ bpc = "idle"

BatchStart ==
    /\ script \in {"improved", "extractor"}
    /\ arg_max_products \in {None} \cup {Some(m) : m \in 1..MaxProductsArg}
    /\ arg_batch_size \in 1..MaxBatchSize
    /\ arg_resume_from \in 0..(MaxItems - 1)
    /\ urls_file \in {None} \cup {Some(n) : n \in 0..MaxItems}
    /\ listed \in 0..MaxItems
    /\ num_products = 0
    /\ num_batches = 0
    /\ batch_idx = 0
    /\ processed = <<>>
    /\ launch_failures = 0
    /\ bpc = "start"

\* main up to the for loop: the product urls, the early return, num_batches
GetProductUrls ==
    /\ bpc = "start"
    /\ LET n == IF ~IsNone(urls_file) THEN
                    IF script = "extractor"
                    THEN LimitToMax(Val(urls_file), arg_max_products)
                    ELSE Val(urls_file)
                ELSE IF script = "improved" THEN find_5star_product_urls(listed, arg_max_products)
                ELSE LimitToMax(listed, arg_max_products)
       IN /\ num_products' = n
          /\ IF n = 0
             THEN /\ bpc' = "returned 1"
                  /\ UNCHANGED <<num_batches, batch_idx>>
             ELSE /\ bpc' = "loop"
                  /\ num_batches' = NumBatches(n, arg_resume_from, arg_batch_size)
                  /\ batch_idx' = FloorDiv(arg_resume_from, arg_batch_size)
    /\ UNCHANGED <<script, arg_max_products, arg_batch_size, arg_resume_from, urls_file,
                   listed, processed, launch_failures>>
    /\ UNCHANGED notBatchVars

\* one pass of the for loop: process_product_batch for batch_idx. launched:
\* the browser came up, and every url of the batch is handed to the page
\* scraper (whose exceptions the inner try catches); otherwise the outer try
\* of process_product_batch catches the failure and the batch stays empty
ProcessBatch(launched) ==
    /\ bpc = "loop"
    /\ batch_idx < num_batches
    /\ IF launched
       THEN /\ processed' = processed \o BatchIndices(num_products, batch_idx, arg_batch_size)
            /\ UNCHANGED launch_failures
       ELSE /\ launch_failures' = launch_failures + 1
            /\ UNCHANGED processed
    /\ batch_idx' = batch_idx + 1
    /\ UNCHANGED <<script, arg_max_products, arg_batch_size, arg_resume_from, urls_file,
                   listed, num_products, num_batches, bpc>>
    /\ UNCHANGED notBatchVars

\* the range is exhausted: main returns 0
BatchesDone ==
    /\ bpc = "loop"
    /\ batch_idx >= num_batches
    /\ bpc' = "returned 0"
    /\ UNCHANGED <<script, arg_max_products, arg_batch_size, arg_resume_from, urls_file,
                   listed, num_products, num_batches, batch_idx, processed, launch_failures>>
    /\ UNCHANGED notBatchVars

\* writing the data or the progress file raises: main returns 1
BatchMainRaises ==
    /\ bpc = "loop"
    /\ batch_idx < num_batches
    /\ bpc' = "returned 1"
    /\ UNCHANGED <<script, arg_max_products, arg_batch_size, arg_resume_from, urls_file,
                   listed, num_products, num_batches, batch_idx, processed, launch_failures>>
    /\ UNCHANGED notBatchVars

BatchNext ==
    \/ GetProductUrls
    \/ \E launched \in BOOLEAN : ProcessBatch(launched)
    \/ BatchesDone
    \/ BatchMainRaises

\* ------------------------------------------------------------------------
\* extract_boots_5star_products.main and process_batch
\* ------------------------------------------------------------------------

\* a summary that always reports success
SummaryCodeZero(failed) == 0

\* main, lines 252-257: the exit code after the loop
SummaryCode(failed) == IF failed > 0 THEN 1 ELSE 0

ExtractIdle ==
    /\ urls_found = 0
    /\ x_max_products = None
    /\ x_batch_size = 1
    /\ x_resume_from = 0
    /\ total_batches = 0
    /\ batch_number = 0
    /\ attempted = <<>>
    /\ successful_batches = 0
    /\ failed_batches = 0
    /\ main_raised = FALSE
    /\ exit_code = None
    /\ xpc = "idle"

ExtractStart ==
    /\ urls_found \in 0..MaxItems
    /\ x_max_products \in {None} \cup {Some(m) : m \in 1..MaxProductsArg}
    /\ x_batch_size \in 0..MaxBatchSize
    /\ x_resume_from \in 0..(MaxItems + 1)
    /\ total_batches = 0
    /\ batch_number = 0
    /\ attempted = <<>>
    /\ successful_batches = 0
    /\ failed_batches = 0
    /\ main_raised = FALSE
    /\ exit_code = None
    /\ xpc = "start"

\* main, lines 204-209: len(product_urls_list) after the slice to max_products
TotalProducts ==
    IF TruthyInt(x_max_products) THEN Min(urls_found, Val(x_max_products)) ELSE urls_found

\* main, line 210
EffectiveBatchSize == Min(x_batch_size, TotalProducts)

\* main, lines 200-217: no urls: return 1; a batch size of 0 makes line 211
\* raise ZeroDivisionError, which the except block turns into return 1
ExtractBegin ==
    /\ xpc = "start"
    /\ IF urls_found = 0
       THEN /\ exit_code' = Some(1)
            /\ xpc' = "returned"
            /\ UNCHANGED <<total_batches, batch_number, main_raised>>
       ELSE IF EffectiveBatchSize = 0
       THEN /\ exit_code' = Some(1)
            /\ xpc' = "returned"
            /\ main_raised' = TRUE
            /\ UNCHANGED <<total_batches, batch_number>>
       ELSE /\ total_batches' =
                  FloorDiv(TotalProducts + EffectiveBatchSize - 1, EffectiveBatchSize)
            /\ batch_number' = 1
            /\ xpc' = "loop"
            /\ UNCHANGED <<exit_code, main_raised>>
    /\ UNCHANGED <<urls_found, x_max_products, x_batch_size, x_resume_from, attempted,
                   successful_batches, failed_batches>>
    /\ UNCHANGED notExtractVars

\* main, lines 220-222: a batch before resume_from is skipped
SkipBatch ==
    /\ xpc = "loop"
    /\ batch_number <= total_batches
    /\ batch_number < x_resume_from
    /\ batch_number' = batch_number + 1
    /\ UNCHANGED <<urls_found, x_max_products, x_batch_size, x_resume_from, total_batches,
                   attempted, successful_batches, failed_batches, main_raised, exit_code, xpc>>
    /\ UNCHANGED notExtractVars

\* main, lines 224-247: process_batch returns True, or False when anything
\* in its try block raised (lines 108-130)
AttemptBatch(success) ==
    /\ xpc = "loop"
    /\ batch_number <= total_batches
    /\ batch_number >= x_resume_from
    /\ attempted' = Append(attempted, [number |-> batch_number, success |-> success])
    /\ IF success
       THEN successful_batches' = successful_batches + 1 /\ UNCHANGED failed_batches
       ELSE failed_batches' = failed_batches + 1 /\ UNCHANGED successful_batches
    /\ batch_number' = batch_number + 1
    /\ UNCHANGED <<urls_found, x_max_products, x_batch_size, x_resume_from, total_batches,
                   main_raised, exit_code, xpc>>
    /\ UNCHANGED notExtractVars

\* an exception outside process_batch (building the batch scraper, lines
\* 229-239): main's except block returns 1
ExtractMainRaises ==
    /\ xpc = "loop"
    /\ batch_number <= total_batches
    /\ batch_number >= x_resume_from
    /\ main_raised' = TRUE
    /\ exit_code' = Some(1)
    /\ xpc' = "returned"
    /\ UNCHANGED <<urls_found, x_max_products, x_batch_size, x_resume_from, total_batches,
                   batch_number, attempted, successful_batches, failed_batches>>
    /\ UNCHANGED notExtractVars

\* main, lines 250-257: the loop is over
ExtractSummary ==
    /\ xpc = "loop"
    /\ batch_number > total_batches
    /\ exit_code' = Some(SummaryCode(failed_batches))
    /\ xpc' = "returned"
    /\ UNCHANGED <<urls_found, x_max_products, x_batch_size, x_resume_from, total_batches,
                   batch_number, attempted, successful_batches, failed_batches, main_raised>>
    /\ UNCHANGED notExtractVars

ExtractNext ==
    \/ ExtractBegin
    \/ SkipBatch
    \/ \E success \in BOOLEAN : AttemptBatch(success)
    \/ ExtractMainRaises
    \/ ExtractSummary

\* ------------------------------------------------------------------------
\* batch_fix_ingredients.py: clean_ingredients_text, extract_ingredients_list
\* and process_batch (fix_ingredients_list.py repeats the three)
\* ------------------------------------------------------------------------

\* rows in a batch at most
MaxRows == 2

AlnumSet == CharsOf(UpperChars) \cup CharsOf(LowerChars) \cup CharsOf(DigitChars)

\* the least element of a non-empty set of positions, 0 for the empty set
FirstOf(S) == IF S = {} THEN 0 ELSE CHOOSE i \in S : \A j \in S : i <= j

\* the greatest element of a non-empty set of positions, 0 for the empty set
LastOf(S) == IF S = {} THEN 0 ELSE CHOOSE i \in S : \A j \in S : i >= j

\* what \s matches
SpaceSet == {" ", "\t", "\n"}

\* the end of the longest run of characters of the set chars that starts at i
\* (i - 1 when s[i] is not one of them)
SpanEnd(s, i, chars) ==
    LET bad == {k \in i..Len(s) : Ch(s, k) \notin chars}
    IN IF bad = {} THEN Len(s) ELSE FirstOf(bad) - 1

IsSpaceOrSlash(c) == IsSpace(c) \/ c = "/"
NotAngle(c) == c \notin {"<", ">"}

\* where (?:\(FIL|\(F\.I\.L) matches, ignoring case
FilAt(s, t) == MatchCI(s, t, "(fil") \/ MatchCI(s, t, "(f.i.l")

\* pattern1, its group
\*   ((?:AQUA|WATER)[\s/]+(?:WATER|EAU|AQUA)[^<>]*(?:,|\s+<bullet>\s+)[^<>]*)
\* matched at q: the index of its last character, 0 when it does not match.
\* r is where the second word starts.  Both [^<>]* are greedy, so the group
\* runs to the end e of the stretch free of angle brackets, which must hold a
\* comma after the second word.  The bullet alternative needs a character no
\* text of the model holds.
WaterGroupEnd(s, q) ==
    LastOf({e \in q..Len(s) :
        \E w1 \in {"aqua", "water"} :
            /\ MatchCI(s, q, w1)
            /\ \E r \in (q + Len(w1) + 1)..Len(s) :
                  /\ \A k \in (q + Len(w1))..(r - 1) : IsSpaceOrSlash(Ch(s, k))
                  /\ \E w2 \in {"water", "eau", "aqua"} :
                        /\ MatchCI(s, r, w2)
                        /\ \A k \in (r + Len(w2))..e : NotAngle(Ch(s, k))
                        /\ \E k \in (r + Len(w2))..e : Ch(s, k) = ","})

\* the pair with the least first component and, among those, the least
\* second one; <<0, 0>> for the empty set
LeftmostPair(S) ==
    IF S = {} THEN <<0, 0>>
    ELSE CHOOSE m \in S : \A o \in S : m[1] < o[1] \/ (m[1] = o[1] /\ m[2] <= o[2])

\* the group of pattern1 that starts at q, None for q = 0
Pattern1Group(s, q) == IF q = 0 THEN None ELSE Some(SubSeq(s, q, WaterGroupEnd(s, q)))

\* re.search(pattern1, s, re.IGNORECASE | re.DOTALL): group 1, or None.
\* (?:INGREDIENTS|ACTIVE|Active) at the leftmost p after which the group
\* matches somewhere; .*? takes the group's leftmost start q
Pattern1(s) ==
    Pattern1Group(s, LeftmostPair({pq \in (1..Len(s)) \X (1..Len(s)) :
        /\ \E kw \in {"ingredients", "active"} :
              MatchCI(s, pq[1], kw) /\ pq[2] >= pq[1] + Len(kw)
        /\ WaterGroupEnd(s, pq[2]) > 0})[2])

\* where (?:read more|$|\(FIL|\(F\.I\.L) matches; $ matches at the end of the
\* string and before a newline that ends it
Pattern2EndAt(s, t) ==
    \/ MatchCI(s, t, "read more")
    \/ t = Len(s) + 1
    \/ (t = Len(s) /\ Ch(s, t) = "\n")
    \/ FilAt(s, t)

\* where [- ] of pattern2 can match after a run of digits that ends at d,
\* with room for a group of one character: \s* before it takes whitespace only
Pattern2Seps(s, d) ==
    {k \in (d + 1)..(Len(s) - 1) :
        /\ Ch(s, k) \in {"-", " "}
        /\ \A j \in (d + 1)..(k - 1) : IsSpace(Ch(s, j))}

\* the lazy group (.+?) that starts at g: it ends before the first end marker
Pattern2GroupFrom(s, g) ==
    SubSeq(s, g, FirstOf({t \in (g + 1)..(Len(s) + 1) : Pattern2EndAt(s, t)}) - 1)

\* the group after [- ] at k: the greedy \s* leaves it one character at least
Pattern2Group(s, k) == Pattern2GroupFrom(s, Min(SpanEnd(s, k + 1, SpaceSet) + 1, Len(s)))

\* the match of pattern2 that starts at p, None for p = 0; both \s* are
\* greedy, so [- ] matches at the greatest place it can
Pattern2At(s, p) ==
    IF p = 0 THEN None
    ELSE Some(Pattern2Group(s, LastOf(Pattern2Seps(s, SpanEnd(s, p, DigitSet)))))

\* re.search(pattern2, s, re.IGNORECASE | re.DOTALL): group 1, or None.
\*   (?:[0-9]{5,})\s*[- ]\s*(.+?)(?:read more|$|\(FIL|\(F\.I\.L)
\* The digits are a whole run of five or more, at the leftmost p
Pattern2(s) ==
    Pattern2At(s, FirstOf({p \in 1..Len(s) :
        /\ SpanEnd(s, p, DigitSet) >= p + 4
        /\ Pattern2Seps(s, SpanEnd(s, p, DigitSet)) /= {}}))

\* where the end marker of pattern3 matches after a group that starts at g
Pattern3Ends(s, g) == {t \in (g + 1)..Len(s) : FilAt(s, t)}

\* the starts (?:-\s*)? allows the group when the words and spaces after
\* Active, from a on, end at h: after a dash and some of the spaces behind it
Pattern3DashStarts(s, a, h) ==
    {g \in (h + 2)..(SpanEnd(s, h + 2, SpaceSet) + 1) :
        /\ h + 1 <= Len(s)
        /\ Ch(s, h + 1) = "-"
        /\ \E k \in a..h : IsWordChar(Ch(s, k))
        /\ Pattern3Ends(s, g) /= {}}

\* the starts of the group without the dash: right after a prefix of the
\* run of words and spaces, a..e, that holds a word character
Pattern3PlainStarts(s, a, e) ==
    {g \in (a + 1)..(e + 1) :
        /\ \E k \in a..(g - 1) : IsWordChar(Ch(s, k))
        /\ Pattern3Ends(s, g) /= {}}

\* the start the backtracking search settles on: every quantifier is greedy
\* and the dash is tried before its absence; 0 when there is none
Pattern3Choice(dash, plain) ==
    IF dash /= {} THEN LastOf(dash) ELSE LastOf(plain)

\* where the group of pattern3 starts when Active matches at p, 0 when the
\* pattern does not match there (p = 0: nowhere)
Pattern3GroupStart(s, p) ==
    IF p = 0 THEN 0
    ELSE IF ~MatchCI(s, p, "active") THEN 0
    ELSE Pattern3Choice(
            Pattern3DashStarts(s, p + 6, SpanEnd(s, p + 6, WordSet \cup SpaceSet)),
            Pattern3PlainStarts(s, p + 6, SpanEnd(s, p + 6, WordSet \cup SpaceSet)))

\* the lazy group (.+?) that starts at g, None for g = 0
Pattern3Group(s, g) ==
    IF g = 0 THEN None ELSE Some(SubSeq(s, g, FirstOf(Pattern3Ends(s, g)) - 1))

\* re.search(pattern3, s, re.IGNORECASE | re.DOTALL): group 1, or None.
\*   Active\s*(?:\w+\s*)+\s*(?:-\s*)?(.+?)(?:\(FIL|\(F\.I\.L)
Pattern3(s) ==
    Pattern3Group(s, Pattern3GroupStart(s,
        FirstOf({p \in 1..Len(s) : Pattern3GroupStart(s, p) > 0})))

\* re.sub(r'<[^>]+>', '', s)
RECURSIVE RemoveTags(_, _)
RemoveTags(s, i) ==
    IF i > Len(s) THEN ""
    ELSE LET close == FirstOf({j \in (i + 1)..Len(s) : Ch(s, j) = ">"})
         IN IF Ch(s, i) = "<" /\ close >= i + 2
            THEN RemoveTags(s, close + 1)
            ELSE Ch(s, i) \o RemoveTags(s, i + 1)

\* re.sub(r'\s+', ' ', s)
RECURSIVE CollapseSpaces(_, _)
CollapseSpaces(s, i) ==
    IF i > Len(s) THEN ""
    ELSE IF IsSpace(Ch(s, i))
    THEN " " \o CollapseSpaces(s, SpanEnd(s, i, SpaceSet) + 1)
    ELSE Ch(s, i) \o CollapseSpaces(s, i + 1)

\* lines 18-22: the first pattern that matches gives the text, stripped
RECURSIVE FirstGroup(_, _)
FirstGroup(text, groups) ==
    IF groups = <<>> THEN text
    ELSE IF ~IsNone(Head(groups)) THEN Strip(Val(Head(groups)))
    ELSE FirstGroup(text, Tail(groups))

\* clean_ingredients_text for a str argument, lines 12-29.  The last
\* alternative of the marker pattern, \bINGREDIENTS\b, repeats the third one
\* under re.IGNORECASE
clean_ingredients_text(ingredients_text) ==
    Strip(RemoveFrom(CollapseSpaces(RemoveTags(
        FirstGroup(ingredients_text,
                   <<Pattern1(ingredients_text), Pattern2(ingredients_text),
                     Pattern3(ingredients_text)>>), 1), 1), 1))

\* re.sub(r'\s*\|\s*', ', ', s)
RECURSIVE ReplacePipes(_, _)
ReplacePipes(s, i) ==
    IF i > Len(s) THEN ""
    ELSE LET bar == SpanEnd(s, i, SpaceSet) + 1
         IN IF bar <= Len(s) /\ Ch(s, bar) = "|"
            THEN ", " \o ReplacePipes(s, SpanEnd(s, bar + 1, SpaceSet) + 1)
            ELSE Ch(s, i) \o ReplacePipes(s, i + 1)

\* lines 45-46: re.sub(r'^[^a-zA-Z0-9]+', '', item), then the same at the end
TrimSymbols(item) ==
    LET first == FirstOf({k \in 1..Len(item) : Ch(item, k) \in AlnumSet})
        last == LastOf({k \in 1..Len(item) : Ch(item, k) \in AlnumSet})
    IN IF first = 0 THEN "" ELSE SubSeq(item, first, last)

\* a filter that keeps every item, the empty and the one-character ones too
KeepAll(item) == TRUE

\* line 48: if item and len(item) > 1
KeepItem(item) == item /= "" /\ Len(item) > 1

\* extract_ingredients_list, lines 31-51.  The bullet substitution of line 37
\* needs a character no text of the model holds
extract_ingredients_list(ingredients_text) ==
    IF ingredients_text = "" THEN <<>>
    ELSE LET items == SplitComma(ReplacePipes(ingredients_text, 1))
             trimmed == [k \in 1..Len(items) |-> TrimSymbols(Strip(items[k]))]
         IN SelectSeq(trimmed, KeepItem)

\* ', '.join(lst)
RECURSIVE JoinCommaSpace(_)
JoinCommaSpace(lst) ==
    IF lst = <<>> THEN ""
    ELSE IF Len(lst) = 1 THEN lst[1]
    ELSE lst[1] \o ", " \o JoinCommaSpace(Tail(lst))

\* main, lines 137-138: the list the JSON file gets from the joined string,
\* [ing.strip() for ing in item['ingredients_list'].split(',') if ing.strip()]
JsonList(joined) == StripNonEmpty(SplitComma(joined))

\* the str values of the 'ingredients' column
RowTexts ==
    {"", " ", "Aqua, Glycerin, Parfum", "Aqua", "x", ".", "*, +", "Ingredients",
     " Aqua ,  Glycerin\n",
     "Ingredients: Aqua/Water, Glycerin.",
     "INGREDIENTS Water / Eau, Glycerin <br> more",
     "Active: Aqua Water Glycerin",
     "10123456 - Aqua, Alcohol read more",
     "12345 Aqua | Glycerin (FIL B1)",
     "12345  ",
     "99999-",
     "Active Ingredients - Aqua, Zinc Oxide (F.I.L C2)",
     "Active Zinc - Talc (FIL",
     "Active Water (FIL",
     "<p>:</p>",
     "<b>Aqua</b>, <i>Glycerin</i>",
     "Aqua (Water), Glycerin*",
     "Aqua, B, , Zinc-Oxide 5%"}

\* a cell of the 'ingredients' column: NaN, a number or a str
IngredientCells ==
    {[kind |-> "nan", text |-> ""], [kind |-> "num", text |-> ""]}
        \cup {[kind |-> "str", text |-> t] : t \in RowTexts}

\* what an earlier run left in the other two columns
StaleColumns ==
    {[ingredients_count |-> None, ingredients_list |-> None],
     [ingredients_count |-> Some(9), ingredients_list |-> Some("stale")]}

\* a row of the dataframe, as row.to_dict() gives it
Rows ==
    {[product_name |-> "Serum", ingredients |-> c,
      ingredients_count |-> o.ingredients_count, ingredients_list |-> o.ingredients_list] :
        c \in IngredientCells, o \in StaleColumns}

\* a cleaned text and the list extracted from it, lines 69-70
FixOf(cleaned_text) ==
    [cleaned_text |-> cleaned_text, list |-> extract_ingredients_list(cleaned_text)]

\* what cleaning makes of each text, computed once
FixTable == [t \in RowTexts |-> FixOf(clean_ingredients_text(t))]

\* what main's JSON conversion makes of each joined string process_batch can
\* store, computed once
JsonTable ==
    [joined \in {JoinCommaSpace(FixTable[t].list) : t \in RowTexts} |-> JsonList(joined)]

\* line 63: not isinstance(ingredients_text, str) or not ingredients_text.strip()
SkipsRow(row) == row.ingredients.kind /= "str" \/ Strip(row.ingredients.text) = ""

\* an update that is made whatever the list holds
UpdatesAlways(row) == ~SkipsRow(row)

\* lines 63-74: the row gets new values
UpdatesRow(row) == ~SkipsRow(row) /\ FixTable[row.ingredients.text].list /= <<>>

\* lines 75-77
UpdatedWith(row, fix) ==
    [row EXCEPT !.ingredients = [kind |-> "str", text |-> fix.cleaned_text],
                !.ingredients_count = Some(Len(fix.list)),
                !.ingredients_list = Some(JoinCommaSpace(fix.list))]

UpdatedRow(row) == UpdatedWith(row, FixTable[row.ingredients.text])

FixIdle ==
    /\ batch_df = <<>>
    /\ results = <<>>
    /\ success_count = 0

FixStart ==
    /\ batch_df \in UNION {[1..n -> Rows] : n \in 1..MaxRows}
    /\ results = <<>>
    /\ success_count = 0

\* one pass of the for loop of process_batch, lines 58-80
ProcessRow ==
    /\ Len(results) < Len(batch_df)
    /\ LET row == batch_df[Len(results) + 1]
       IN IF UpdatesRow(row)
          THEN /\ results' = Append(results, UpdatedRow(row))
               /\ success_count' = success_count + 1
          ELSE /\ results' = Append(results, row)
               /\ UNCHANGED success_count
    /\ UNCHANGED batch_df
    /\ UNCHANGED notFixVars

FixNext == ProcessRow

\* ------------------------------------------------------------------------
\* cosmetics_scraper.py: save_to_csv and save_product_data
\* ------------------------------------------------------------------------

\* records passed to save_product_data at most
MaxRecords == 2

\* the value under the key 'ingredients_list' of a product dict: the key is
\* absent, or it holds None, a list of str, or (in a copy) the joined str
NoKey == [kind |-> "absent", items |-> <<>>, text |-> ""]
NoneValue == [kind |-> "none", items |-> <<>>, text |-> ""]
ListValue(items) == [kind |-> "list", items |-> items, text |-> ""]
StrValue(text) == [kind |-> "str", items |-> <<>>, text |-> text]

IngredientLists == {<<>>, <<"Aqua">>, <<"Aqua", "Glycerin">>}

\* the product dicts a scrape can hand over
ProductDicts ==
    {[name |-> "Serum", ingredients_list |-> v] :
        v \in {NoKey, NoneValue} \cup {ListValue(l) : l \in IngredientLists}}

\* an assignment that binds the same dict instead of copying it
SameDict(product, fresh) == product

\* line 510: product_copy = product.copy(), a new dict with the same values
DictCopy(product, fresh) == fresh

\* lines 512-513 applied to a dict
JoinedList(d) ==
    IF d.ingredients_list.kind \notin {"absent", "none"}
    THEN [d EXCEPT !.ingredients_list = StrValue(JoinCommaSpace(d.ingredients_list.items))]
    ELSE d

SaveIdle ==
    /\ heap = <<>>
    /\ product_data_list = <<>>
    /\ product_data_copy = <<>>
    /\ originals = <<>>
    /\ csv_file = None
    /\ json_file = None
    /\ save_pc = "idle"

\* save_product_data is called with a list of dicts; a dict may be in the
\* list twice
SaveStart ==
    /\ heap \in UNION {[1..n -> ProductDicts] : n \in 0..MaxRecords}
    /\ product_data_list \in UNION {[1..n -> DOMAIN heap] : n \in 0..MaxRecords}
    /\ product_data_copy = <<>>
    /\ originals = [k \in DOMAIN product_data_list |-> heap[product_data_list[k]]]
    /\ csv_file = None
    /\ json_file = None
    /\ save_pc = "save_to_csv"

\* lines 502-504: nothing to save
SaveNothing ==
    /\ save_pc = "save_to_csv"
    /\ product_data_list = <<>>
    /\ save_pc' = "json"
    /\ UNCHANGED <<heap, product_data_list, product_data_copy, originals, csv_file, json_file>>
    /\ UNCHANGED notSaveVars

\* lines 507-514: one pass of the copying loop
CopyProduct ==
    /\ save_pc = "save_to_csv"
    /\ Len(product_data_copy) < Len(product_data_list)
    /\ LET product == product_data_list[Len(product_data_copy) + 1]
           product_copy == DictCopy(product, Len(heap) + 1)
           allocated == IF product_copy > Len(heap) THEN Append(heap, heap[product]) ELSE heap
       IN /\ heap' = [allocated EXCEPT ![product_copy] = JoinedList(allocated[product_copy])]
          /\ product_data_copy' = Append(product_data_copy, product_copy)
    /\ UNCHANGED <<product_data_list, originals, csv_file, json_file, save_pc>>
    /\ UNCHANGED notSaveVars

\* lines 516-518: the copies are written
WriteCsv ==
    /\ save_pc = "save_to_csv"
    /\ product_data_list /= <<>>
    /\ Len(product_data_copy) = Len(product_data_list)
    /\ csv_file' = Some([k \in DOMAIN product_data_copy |-> heap[product_data_copy[k]]])
    /\ save_pc' = "json"
    /\ UNCHANGED <<heap, product_data_list, product_data_copy, originals, json_file>>
    /\ UNCHANGED notSaveVars

\* lines 562-564: json.dump(product_data_list, f, indent=2)
WriteJson ==
    /\ save_pc = "json"
    /\ json_file' = Some([k \in DOMAIN product_data_list |-> heap[product_data_list[k]]])
    /\ save_pc' = "done"
    /\ UNCHANGED <<heap, product_data_list, product_data_copy, originals, csv_file>>
    /\ UNCHANGED notSaveVars

SaveNext == SaveNothing \/ CopyProduct \/ WriteCsv \/ WriteJson

\* ------------------------------------------------------------------------
\* cosmetics_scraper.py: main's pause after every 100 results and the worker
\* threads of its executor, by counts
\* ------------------------------------------------------------------------

\* line 682: i % 100
PauseEvery == 100

\* urls beyond the first hundred at most
MaxExtraUrls == 2

\* line 682: if i > 0 and i % 100 == 0
PauseDue(i) == i > 0 /\ i % PauseEvery = 0

PauseIdle ==
    /\ url_total = 0
    /\ not_started = 0
    /\ delaying = 0
    /\ requesting = 0
    /\ completed = 0
    /\ yielded = 0
    /\ main_at = "idle"
    /\ requested_in_pause = FALSE

\* lines 651-654: every remaining url is submitted before the first result
\* is taken; the loop reaches i = 100 when there are more than 100 of them
PauseStart ==
    /\ url_total \in (PauseEvery + 1)..(PauseEvery + MaxExtraUrls)
    /\ not_started = url_total
    /\ delaying = 0
    /\ requesting = 0
    /\ completed = 0
    /\ yielded = 0
    /\ main_at = "as_completed"
    /\ requested_in_pause = FALSE

\* a worker thread of the executor takes the next future and enters
\* scrape_boots_product, lines 197-204: at most MAX_WORKERS threads run
WorkerTakesUrl ==
    /\ not_started > 0
    /\ delaying + requesting < MAX_WORKERS
    /\ not_started' = not_started - 1
    /\ delaying' = delaying + 1
    /\ UNCHANGED <<url_total, requesting, completed, yielded, main_at, requested_in_pause>>
    /\ UNCHANGED notPauseVars

\* line 216: requests.get(url, ...) after the delay; nothing main does holds
\* the thread back
WorkerSendsRequest ==
    /\ delaying > 0
    /\ delaying' = delaying - 1
    /\ requesting' = requesting + 1
    /\ requested_in_pause' = (requested_in_pause \/ main_at = "pause")
    /\ UNCHANGED <<url_total, not_started, completed, yielded, main_at>>
    /\ UNCHANGED notPauseVars

\* the response is in and scrape_boots_product returns: the future is done
WorkerReturns ==
    /\ requesting > 0
    /\ requesting' = requesting - 1
    /\ completed' = completed + 1
    /\ UNCHANGED <<url_total, not_started, delaying, yielded, main_at, requested_in_pause>>
    /\ UNCHANGED notPauseVars

\* lines 657-689: one pass of the for loop over as_completed with index
\* i = yielded; an exception in the try block skips the pause check
ProcessResult(raises) ==
    /\ main_at = "as_completed"
    /\ completed > 0
    /\ completed' = completed - 1
    /\ yielded' = yielded + 1
    /\ main_at' = IF ~raises /\ PauseDue(yielded) THEN "pause" ELSE "as_completed"
    /\ requested_in_pause' = FALSE
    /\ UNCHANGED <<url_total, not_started, delaying, requesting>>
    /\ UNCHANGED notPauseVars

\* line 684: time.sleep(RATE_LIMIT_PAUSE / 3) returns
PauseEnds ==
    /\ main_at = "pause"
    /\ main_at' = "as_completed"
    /\ UNCHANGED <<url_total, not_started, delaying, requesting, completed, yielded,
                   requested_in_pause>>
    /\ UNCHANGED notPauseVars

\* every future was yielded: the with block ends, line 692 follows
ExecutorDone ==
    /\ main_at = "as_completed"
    /\ yielded = url_total
    /\ main_at' = "done"
    /\ UNCHANGED <<url_total, not_started, delaying, requesting, completed, yielded,
                   requested_in_pause>>
    /\ UNCHANGED notPauseVars

PauseNext ==
    \/ WorkerTakesUrl
    \/ WorkerSendsRequest
    \/ WorkerReturns
    \/ \E raises \in BOOLEAN : ProcessResult(raises)
    \/ PauseEnds
    \/ ExecutorDone

\* ------------------------------------------------------------------------
\* The batch loops: batch_fix_ingredients.main (lines 105-126),
\* scrape_5star_boots_products.main_async (lines 92-136) and
\* run_5star_scraper.main (lines 123-169)
\* ------------------------------------------------------------------------

\* batch_fix_ingredients.py line 87: batch_size = 100
main_batch_size == 100

\* full batches of rows at most
MaxRowBatches == 2

\* where Python puts a slice bound on a list of n items
SliceBound(n, k) == IF k < 0 THEN (IF k + n < 0 THEN 0 ELSE k + n) ELSE Min(k, n)

\* lst[a:b] of a list of n items, the items named by their (0-based) places
PySlice(n, a, b) ==
    [k \in 1..(IF SliceBound(n, b) > SliceBound(n, a)
               THEN SliceBound(n, b) - SliceBound(n, a) ELSE 0) |->
        SliceBound(n, a) + k - 1]

\* a step that passes over one item
SkipsOne(which, start, end_index, size) == end_index + 1

\* where the next batch starts: the step of range(0, total_rows, batch_size),
\* line 110, and start_index = end_index in the two scrapers
NextIndex(which, start, end_index, size) ==
    IF which = "batch_fix_ingredients" THEN start + size ELSE end_index

LoopIdle ==
    /\ loop_script = "none"
    /\ loop_total = 0
    /\ loop_batch_size = 0
    /\ loop_resume_from = 0
    /\ start_index = 0
    /\ batches_done = <<>>
    /\ total_processed = 0
    /\ batch_raised = FALSE
    /\ loop_pc = "idle"

\* batch_fix_ingredients reads any number of rows and takes them in batches of
\* main_batch_size from row 0; the scrapers take what argparse gives them: any int
\* for --resume-from, and a --batch-size that passed "args.batch_size > 0"
LoopStart ==
    /\ \/ /\ loop_script = "batch_fix_ingredients"
          /\ loop_total \in 0..(main_batch_size * MaxRowBatches + 1)
          /\ loop_batch_size = main_batch_size
          /\ loop_resume_from = 0
       \/ /\ loop_script \in {"scrape_5star_boots_products", "run_5star_scraper"}
          /\ loop_total \in 0..MaxItems
          /\ loop_batch_size \in 1..MaxBatchSize
          /\ loop_resume_from \in (0 - MaxBatchSize)..(MaxItems + 1)
    /\ start_index = loop_resume_from
    /\ batches_done = <<>>
    /\ total_processed = 0
    /\ batch_raised = FALSE
    /\ loop_pc = "loop"

\* one pass of the loop: the slice is taken and processed
\* (batch_fix_ingredients lines 110-121; scrapers lines 99-136 / 128-169)
LoopBatch ==
    /\ loop_pc = "loop"
    /\ start_index < loop_total
    /\ LET end_index == Min(start_index + loop_batch_size, loop_total)
           batch == PySlice(loop_total, start_index, end_index)
       IN /\ batches_done' = Append(batches_done, batch)
          /\ total_processed' = total_processed + Len(batch)
          /\ start_index' = NextIndex(loop_script, start_index, end_index, loop_batch_size)
    /\ UNCHANGED <<loop_script, loop_total, loop_batch_size, loop_resume_from, batch_raised, loop_pc>>
    /\ UNCHANGED notLoopVars

\* a batch raises: run_5star_scraper logs it and goes on with the next batch
\* (lines 155-165); in the other two the exception leaves the loop for the
\* except block around it
LoopBatchRaises ==
    /\ loop_pc = "loop"
    /\ start_index < loop_total
    /\ batch_raised' = TRUE
    /\ IF loop_script = "run_5star_scraper"
       THEN /\ start_index' = Min(start_index + loop_batch_size, loop_total)
            /\ UNCHANGED loop_pc
       ELSE /\ loop_pc' = "except"
            /\ UNCHANGED start_index
    /\ UNCHANGED <<loop_script, loop_total, loop_batch_size, loop_resume_from, batches_done,
                   total_processed>>
    /\ UNCHANGED notLoopVars

\* the loop condition fails
LoopEnd ==
    /\ loop_pc = "loop"
    /\ start_index >= loop_total
    /\ loop_pc' = "done"
    /\ UNCHANGED <<loop_script, loop_total, loop_batch_size, loop_resume_from, start_index,
                   batches_done, total_processed, batch_raised>>
    /\ UNCHANGED notLoopVars

LoopNext == LoopBatch \/ LoopBatchRaises \/ LoopEnd

\* ------------------------------------------------------------------------
\* Specifications
\* ------------------------------------------------------------------------

\* the subsystems after navigate_with_retry, before their calls
LaterIdle == RunIdle /\ StdIdle /\ ResumeIdle /\ BatchIdle /\ ExtractIdle /\ FixIdle /\ SaveIdle /\ PauseIdle /\ LoopIdle

TextNext == CountIngredients

InitText == TextStart /\ ScrapeIdle /\ PoolIdle /\ CascadeIdle /\ NavIdle /\ LaterIdle

SpecText == InitText /\ [][TextNext]_vars

InitScrape == TextIdle /\ ScrapeIdle /\ PoolIdle /\ CascadeIdle /\ NavIdle /\ LaterIdle

SpecScrape == InitScrape /\ [][ScrapeNext]_vars

InitPool == TextIdle /\ ScrapeIdle /\ PoolStart /\ CascadeIdle /\ NavIdle /\ LaterIdle

SpecPool == InitPool /\ [][PoolNext]_vars

InitCascade == TextIdle /\ ScrapeIdle /\ PoolIdle /\ CascadeIdle /\ NavIdle /\ LaterIdle

SpecCascade == InitCascade /\ [][CascadeNext]_vars

InitNav == TextIdle /\ ScrapeIdle /\ PoolIdle /\ CascadeIdle /\ NavStart /\ LaterIdle

SpecNav == InitNav /\ [][NavNext]_vars

InitRun ==
    /\ TextIdle /\ ScrapeIdle /\ PoolIdle /\ CascadeIdle /\ NavIdle
    /\ RunIdle /\ StdIdle /\ ResumeIdle /\ BatchIdle /\ ExtractIdle /\ FixIdle /\ SaveIdle /\ PauseIdle /\ LoopIdle

SpecRun == InitRun /\ [][RunNext]_vars

InitStd ==
    /\ TextIdle /\ ScrapeIdle /\ PoolIdle /\ CascadeIdle /\ NavIdle
    /\ RunIdle /\ StdStart /\ ResumeIdle /\ BatchIdle /\ ExtractIdle /\ FixIdle /\ SaveIdle /\ PauseIdle /\ LoopIdle

SpecStd == InitStd /\ [][StdNext]_vars

InitResume ==
    /\ TextIdle /\ ScrapeIdle /\ PoolIdle /\ CascadeIdle /\ NavIdle
    /\ RunIdle /\ StdIdle /\ ResumeStart /\ BatchIdle /\ ExtractIdle /\ FixIdle /\ SaveIdle /\ PauseIdle /\ LoopIdle

SpecResume == InitResume /\ [][ResumeNext]_vars

InitBatch ==
    /\ TextIdle /\ ScrapeIdle /\ PoolIdle /\ CascadeIdle /\ NavIdle
    /\ RunIdle /\ StdIdle /\ ResumeIdle /\ BatchStart /\ ExtractIdle /\ FixIdle /\ SaveIdle /\ PauseIdle /\ LoopIdle

SpecBatch == InitBatch /\ [][BatchNext]_vars

InitExtract ==
    /\ TextIdle /\ ScrapeIdle /\ PoolIdle /\ CascadeIdle /\ NavIdle
    /\ RunIdle /\ StdIdle /\ ResumeIdle /\ BatchIdle /\ ExtractStart /\ FixIdle /\ SaveIdle /\ PauseIdle /\ LoopIdle

SpecExtract == InitExtract /\ [][ExtractNext]_vars

InitFix ==
    /\ TextIdle /\ ScrapeIdle /\ PoolIdle /\ CascadeIdle /\ NavIdle
    /\ RunIdle /\ StdIdle /\ ResumeIdle /\ BatchIdle /\ ExtractIdle /\ FixStart /\ SaveIdle /\ PauseIdle /\ LoopIdle

SpecFix == InitFix /\ [][FixNext]_vars

InitSave ==
    /\ TextIdle /\ ScrapeIdle /\ PoolIdle /\ CascadeIdle /\ NavIdle
    /\ RunIdle /\ StdIdle /\ ResumeIdle /\ BatchIdle /\ ExtractIdle /\ FixIdle /\ SaveStart /\ PauseIdle /\ LoopIdle

SpecSave == InitSave /\ [][SaveNext]_vars

InitPause ==
    /\ TextIdle /\ ScrapeIdle /\ PoolIdle /\ CascadeIdle /\ NavIdle
    /\ RunIdle /\ StdIdle /\ ResumeIdle /\ BatchIdle /\ ExtractIdle /\ FixIdle /\ SaveIdle /\ PauseStart /\ LoopIdle

SpecPause == InitPause /\ [][PauseNext]_vars

InitLoop ==
    /\ TextIdle /\ ScrapeIdle /\ PoolIdle /\ CascadeIdle /\ NavIdle
    /\ RunIdle /\ StdIdle /\ ResumeIdle /\ BatchIdle /\ ExtractIdle /\ FixIdle /\ SaveIdle /\ PauseIdle /\ LoopStart

\* the loop body is straight-line code: a pass that can run does run
SpecLoop == InitLoop /\ [][LoopNext]_vars /\ WF_vars(LoopNext)

\* ------------------------------------------------------------------------
\* Properties
\* ------------------------------------------------------------------------

\* The comma-separated segments of the text as extracted that are not empty
\* once the markers are removed from the segment and it is trimmed.
NonEmptySegments(text) ==
    LET segs == SplitComma(text)
    IN Cardinality({i \in DOMAIN segs : Strip(RemoveMarkers(segs[i])) /= ""})

CountIsSegments(text) ==
    /\ ingredients_count = Some(NonEmptySegments(text))
    /\ ~IsNone(ingredients_list)
    /\ Len(Val(ingredients_list)) = Val(ingredients_count)

\* C2 as stated: for any ingredients text the counting block leaves
\* ingredients_count equal to the number of comma-separated segments that
\* are non-empty after marker removal and trimming, and equal to
\* len(ingredients_list).
C2_CountForAnyText ==
    (tpc = "counted" /\ ~IsNone(ingredients)) => CountIsSegments(Val(ingredients))

\* C2 amended: for any non-empty ingredients text ingredients_count is the
\* number of comma-separated segments that are non-empty after marker
\* removal and trimming, it equals len(ingredients_list), and the two sample
\* texts give 5 and 4.
C2_CountForNonEmptyText ==
    (tpc = "counted" /\ Truthy(ingredients)) =>
        /\ CountIsSegments(Val(ingredients))
        /\ (ingredients = Some(Sample1) => ingredients_count = Some(5))
        /\ (ingredients = Some(Sample3) => ingredients_count = Some(4))

\* a counted text with a segment that marker removal empties and one that it keeps
C2_Witness ==
    /\ tpc = "counted"
    /\ Truthy(ingredients)
    /\ Val(ingredients_count) > 0
    /\ Val(ingredients_count) < Len(SplitComma(Val(ingredients)))

\* C3: a call makes at most MAX_RETRIES requests and terminates: the retry
\* counter never passes MAX_RETRIES, every step of the loop returns or adds
\* one to it, and the loop always has a step to take until it has returned.
C3_TerminatesWithinRetries ==
    /\ [](requests <= MAX_RETRIES /\ retries <= MAX_RETRIES)
    /\ [](spc = "loop" => ENABLED ScrapeNext)
    /\ [][spc = "loop" => (spc' = "returned" \/ retries' = retries + 1)]_scrapeVars

\* a call that used all its attempts, each with a request, and returned
C3_Witness == spc = "returned" /\ retries = MAX_RETRIES /\ requests = MAX_RETRIES

\* C4: the call only ever returns; when the attempts are used up the record
\* returned has the requested url and a timestamp, every field no attempt
\* obtained is None, and all fields are None when no attempt came to parse.
C4_ExhaustedReturnsRecord ==
    /\ spc \in {"idle", "loop", "returned"}
    /\ (spc = "returned" /\ retries = MAX_RETRIES) =>
        /\ product_data.url = Some(url)
        /\ ~IsNone(product_data.scrape_timestamp)
        /\ \A f \in DataFields \ extracted : IsNone(product_data[f])
        /\ (~parsed => \A f \in DataFields : IsNone(product_data[f]))

\* the attempts are used up and the record is filled in part
C4_Witness ==
    /\ spc = "returned"
    /\ retries = MAX_RETRIES
    /\ product_data.url = Some(url)
    /\ product_data.product_name = Some("Serum")
    /\ "product_details" \notin extracted
    /\ IsNone(product_data.product_details)

\* C5: never more than MAX_WORKERS scrape_boots_product calls execute at once.
C5_AtMostMaxWorkers == Cardinality(running) <= MAX_WORKERS

\* MAX_WORKERS calls execute while a further submitted url waits
C5_Witness == Cardinality(running) = MAX_WORKERS /\ started < submitted

\* C6: the records appended to all_product_data are exactly the results of
\* the collected futures that were meaningful, each once, and no step of a
\* worker changes all_product_data, failed_urls or redirect_urls.
C6_AppendsAreMeaningfulResults ==
    /\ [](/\ BagCardinality(all_product_data) = BagCardinality(loaded) + Cardinality(meaningful)
          /\ \A k \in meaningful :
                \E pd \in BagToSet(all_product_data) :
                    pd.url = Some(RemainingUrl(k)) /\ CopiesIn(pd, all_product_data) = 1
          /\ \A pd \in BagToSet(loaded) : CopiesIn(pd, all_product_data) = 1)
    /\ [][running' /= running =>
            UNCHANGED <<all_product_data, failed_urls, redirect_urls>>]_poolVars

\* results were collected, kept and dropped, while a worker is still scraping
C6_Witness ==
    /\ BagCardinality(all_product_data) > BagCardinality(loaded)
    /\ BagCardinality(failed_urls) > 0
    /\ BagCardinality(redirect_urls) > 0
    /\ running /= {}

\* the selectors of the running cascade whose element gives a non-empty value
YieldingSelectors ==
    {i \in DOMAIN soup :
        ~IsNone(soup[i]) /\ FieldValue(Selectors(cfield)[i], Val(soup[i])) /= ""}

\* C7: a finished cascade has set the field from the lowest-index selector
\* that yields a non-empty value, and has consulted no selector after it.
C7_FirstNonEmptyValueWins ==
    (cpc = "done" /\ YieldingSelectors /= {}) =>
        LET first == CHOOSE i \in YieldingSelectors : \A j \in YieldingSelectors : i <= j
        IN /\ cvalue = Some(FieldValue(Selectors(cfield)[first], Val(soup[first])))
           /\ consulted = [j \in 1..first |-> j]

\* the current call was turned away by robots.txt
Blocked == respect_robots /\ nurl \in RobotsDisallowed

\* C8: a call makes at most max_retries + 1 page.goto calls; an attempt that
\* completes ends the call with True and no attempt follows it; a call whose
\* attempts all fail makes every one of them and returns None; the call never
\* ends otherwise.
C8_RetriesThenTrueOrNone ==
    /\ npc \in {"idle", "loop", "returned"}
    /\ gotos <= max_retries + 1
    /\ Len(outcomes) <= max_retries + 1
    /\ \A j \in 1..(Len(outcomes) - 1) : outcomes[j] = "failed"
    /\ npc = "returned" =>
        IF outcomes /= <<>> /\ outcomes[Len(outcomes)] = "ok"
        THEN nret = Some(TRUE)
        ELSE /\ nret = None
             /\ ~Blocked => Len(outcomes) = max_retries + 1

\* a call that returned True on its last allowed attempt
C8_Witness ==
    /\ npc = "returned"
    /\ nret = Some(TRUE)
    /\ max_retries >= 1
    /\ Len(outcomes) = max_retries + 1
    /\ gotos = max_retries + 1

\* C9: after failed attempt k < max_retries the call sleeps between 2^k and
\* 3 * 2^k seconds, and it sleeps after no other attempt (not after the last
\* failed one).
C9_ExponentialBackoff ==
    /\ \A k \in DOMAIN waits :
        /\ k < max_retries
        /\ 10 * (2 ^ k) <= waits[k]
        /\ waits[k] <= 30 * (2 ^ k)
    /\ \A j \in 1..Len(outcomes) :
        (j - 1 \in DOMAIN waits) <=> (outcomes[j] = "failed" /\ j - 1 < max_retries)

\* a call that failed three times: it slept after attempts 0 and 1 only
C9_Witness ==
    /\ npc = "returned"
    /\ nret = None
    /\ max_retries = 2
    /\ Len(outcomes) = 3
    /\ DOMAIN waits = {0, 1}
    /\ waits[1] >= 2 * waits[0]

\* C10: with respect_robots set, a call for a url robots.txt disallows
\* returns None at once, with no page.goto, no sleep and stats and
\* visited_urls as they were; so page.goto is never called with such a url.
C10_DisallowedNeverVisited ==
    /\ [][(ncalls' = ncalls + 1 /\ respect_robots /\ nurl' \in RobotsDisallowed) =>
            /\ npc' = "returned"
            /\ nret' = None
            /\ gotos' = 0
            /\ UNCHANGED <<stats, visited_urls, goto_log, sleeps>>]_navVars
    /\ [](respect_robots => goto_log \cap RobotsDisallowed = {})

\* a scraper that has visited a page is turned away from a disallowed url
C10_Witness ==
    /\ npc = "returned"
    /\ Blocked
    /\ nret = None
    /\ gotos = 0
    /\ stats.pages_visited > 0
    /\ visited_urls /= {}

\* C11: BootsScraper.run with a positive max_total_products N calls
\* scrape_product on at most N product urls, however many categories were
\* visited and however many product urls were collected.
C11_AtMostTotalScraped ==
    (TruthyInt(max_total_products) /\ Val(max_total_products) > 0)
        => /\ Len(scrape_calls) <= Val(max_total_products)
           /\ Len(scrape_calls) + Cardinality(to_scrape) <= Val(max_total_products)

\* run has returned after scraping exactly N urls out of more than N collected
\* ones, found in two categories
C11_Witness ==
    /\ rpc = "done"
    /\ TruthyInt(max_total_products)
    /\ Len(scrape_calls) = Val(max_total_products)
    /\ Cardinality(self_product_urls) > Val(max_total_products)
    /\ categories_left = 0
    /\ found /= {}
    /\ found /= self_product_urls

\* C12: find_product_urls called with a positive max_products M returns at
\* most M product urls, the ones from the product cards and the ones from
\* the scan of all links counted together.
C12_AtMostMaxProducts ==
    (TruthyInt(found_max) /\ Val(found_max) > 0)
        => Cardinality(found) <= Val(found_max)

\* a call whose cards gave fewer than M urls, whose link scan filled the set
\* up to M, and whose page had more product links than M
C12_Witness ==
    /\ TruthyInt(found_max)
    /\ Cardinality(found) = Val(found_max)
    /\ found_cards \in 1..(Val(found_max) - 1)
    /\ found_links > Val(found_max)

\* C13: standardize_ingredient maps every name whose lower-cased form is a
\* key of the synonym table to that key's table value, whatever the letter
\* case of the input and before the prefix and suffix rules; 'aqua', 'AQUA'
\* and 'water' all standardize to the same name.
C13_TableLookupFirst ==
    ~IsNone(standardized) =>
        /\ LowerStr(ingredient) \in DOMAIN INGREDIENT_STANDARDIZATION
              => Val(standardized) = INGREDIENT_STANDARDIZATION[LowerStr(ingredient)]
        /\ ingredient \in {"aqua", "AQUA", "water"} => Val(standardized) = "Water"

\* an upper-case name that is a key only after lower-casing and that the
\* prefix rule would also match has been standardized
C13_Witness ==
    /\ ~IsNone(standardized)
    /\ ingredient = "SODIUM CHLORIDE"
    /\ PrefixOf(LowerStr(ingredient)) /= 0
    /\ Val(standardized) = "Sodium Chloride"

\* the urls that stand in the input CSV
CsvUrlsRead == {Val(csv_column[k]) : k \in {j \in 1..Len(csv_column) : ~IsNone(csv_column[j])}}

\* C14: on resume, main never submits a url that is the 'url' of a record
\* loaded from the progress file, and it submits every other url read from
\* the input CSV exactly once.
C14_ResumeSubmitsTheRest ==
    /\ \A u \in CsvUrls :
          /\ u \in UrlsOf(kept_records) => Occurrences(future_to_url, u) = 0
          /\ Occurrences(future_to_url, u) <= 1
          /\ Occurrences(future_to_url, u) = 1 => u \in CsvUrlsRead
    /\ main_pc = "submitted" =>
          \A u \in CsvUrlsRead \ UrlsOf(kept_records) : Occurrences(future_to_url, u) = 1

\* a resumed run is through submitting: the CSV names a url twice, one of
\* its urls has a loaded record and is skipped, another one was submitted
C14_Witness ==
    /\ main_pc = "submitted"
    /\ Len(csv_column) > Cardinality(CsvUrlsRead)
    /\ UrlsOf(kept_records) \cap CsvUrlsRead /= {}
    /\ future_to_url /= <<>>
    /\ \E j \in 1..Len(csv_column), k \in 1..Len(csv_column) :
          j /= k /\ csv_column[j] = csv_column[k] /\ ~IsNone(csv_column[j])
             /\ Occurrences(future_to_url, Val(csv_column[j])) = 1

\* the indices s, s+1, ..., n-1
IndicesFrom(s, n) == [k \in 1..(n - s) |-> s + k - 1]

\* C15: started with --resume-from s (0 <= s < number of product urls), a run
\* of improved_boots_5star_scraper or boots_product_extractor processes
\* exactly the products at index >= s: each of them once, none below s.
C15_ResumeProcessesFromIndex ==
    (bpc = "returned 0" /\ launch_failures = 0 /\ arg_resume_from < num_products)
        => processed = IndicesFrom(arg_resume_from, num_products)

\* C16: improved_boots_5star_scraper run with --max-products m scrapes at
\* most m product pages, whether the urls come from the live listing page or
\* from --urls-file.
C16_AtMostMaxProductsScraped ==
    (script = "improved" /\ TruthyInt(arg_max_products))
        => Len(processed) <= Val(arg_max_products)

\* the first batch number that is not skipped
FirstAttempted == IF x_resume_from > 1 THEN x_resume_from ELSE 1

\* C17: in extract_boots_5star_products.main every batch numbered >=
\* resume_from is attempted even if an earlier batch failed; main returns 0
\* only if product urls were found and every attempted batch returned True,
\* and returns 1 if a batch failed, if no urls were found, or on an error
\* that reaches its except block.
C17_AllBatchesAttemptedExitCode ==
    /\ \A k \in 1..Len(attempted) : attempted[k].number = FirstAttempted + k - 1
    /\ (xpc = "returned" /\ ~main_raised /\ urls_found > 0)
          => Len(attempted) =
                (IF total_batches >= FirstAttempted THEN total_batches - FirstAttempted + 1 ELSE 0)
    /\ exit_code = Some(0)
          => /\ urls_found > 0
             /\ ~main_raised
             /\ \A k \in 1..Len(attempted) : attempted[k].success
    /\ (xpc = "returned"
          /\ (urls_found = 0 \/ main_raised \/ \E k \in 1..Len(attempted) : ~attempted[k].success))
          => exit_code = Some(1)
    /\ xpc = "returned" => exit_code \in {Some(0), Some(1)}

\* main has returned 1 after a run that skipped batch 1, saw a batch fail and
\* still attempted the batch after it, which succeeded
C17_Witness ==
    /\ xpc = "returned"
    /\ exit_code = Some(1)
    /\ ~main_raised
    /\ x_resume_from > 1
    /\ \E k \in 1..(Len(attempted) - 1) : ~attempted[k].success /\ attempted[k + 1].success
    /\ attempted[Len(attempted)].number = total_batches

\* the rows of the batch that have a str ingredients value, not blank, from
\* which cleaning extracts at least one ingredient
RowHasIngredients(row) ==
    /\ row.ingredients.kind = "str"
    /\ Strip(row.ingredients.text) /= ""
    /\ FixTable[row.ingredients.text].list /= <<>>

\* C18: process_batch leaves a row entirely unchanged when its ingredients
\* value is missing, not a string or blank, and when cleaning yields an empty
\* list; only rows with at least one extracted ingredient get new
\* ingredients, ingredients_count and ingredients_list values, and
\* success_count counts exactly those rows.
C18_OnlyRowsWithIngredientsChange ==
    /\ \A k \in 1..Len(results) :
          IF RowHasIngredients(batch_df[k])
          THEN /\ results[k].product_name = batch_df[k].product_name
               /\ results[k].ingredients_count /= None
               /\ Val(results[k].ingredients_count) >= 1
               /\ results[k].ingredients_list /= None
               /\ Val(results[k].ingredients_list) /= ""
               /\ results[k].ingredients =
                      [kind |-> "str", text |-> FixTable[batch_df[k].ingredients.text].cleaned_text]
               /\ Val(results[k].ingredients_count) =
                      Len(FixTable[batch_df[k].ingredients.text].list)
          ELSE results[k] = batch_df[k]
    /\ success_count = Cardinality({k \in 1..Len(results) : RowHasIngredients(batch_df[k])})

\* a batch is through whose first row was cleaned to an empty list and left
\* as it was, stale columns included, and whose second row was updated
C18_Witness ==
    /\ Len(results) = 2
    /\ Len(batch_df) = 2
    /\ batch_df[1].ingredients = [kind |-> "str", text |-> "Active Water (FIL"]
    /\ batch_df[1].ingredients_count = Some(9)
    /\ results[1] = batch_df[1]
    /\ results[2] /= batch_df[2]
    /\ success_count = 1

\* C19: save_to_csv does not modify the records passed to it: every record's
\* ingredients_list holds what it held at the call, during the copying and
\* after it; the joined string exists only in the rows written to the CSV,
\* and the JSON written afterwards by save_product_data holds the records as
\* they came, lists included.
C19_SaveToCsvLeavesRecords ==
    /\ \A k \in DOMAIN product_data_list : heap[product_data_list[k]] = originals[k]
    /\ csv_file /= None =>
          \A k \in DOMAIN originals :
              /\ Val(csv_file)[k] = JoinedList(originals[k])
              /\ originals[k].ingredients_list.kind = "list"
                    => Val(csv_file)[k].ingredients_list.kind = "str"
    /\ json_file /= None =>
          /\ Val(json_file) = originals
          /\ \A k \in DOMAIN originals :
                Val(json_file)[k].ingredients_list.kind /= "str"

\* both files are written for two records, one of them with a list of two
\* ingredients: the CSV row holds the joined string, the JSON record the list
C19_Witness ==
    /\ save_pc = "done"
    /\ Len(product_data_list) = 2
    /\ csv_file /= None
    /\ json_file /= None
    /\ originals[1].ingredients_list = ListValue(<<"Aqua", "Glycerin">>)
    /\ Val(csv_file)[1].ingredients_list = StrValue("Aqua, Glycerin")
    /\ Val(json_file)[1].ingredients_list = ListValue(<<"Aqua", "Glycerin">>)

\* C20: while main is in its pause after every 100 processed results, no
\* worker thread issues a product-page HTTP request.
C20_NoRequestWhileMainPauses == main_at = "pause" => ~requested_in_pause

\* the batches in the order they were processed, as one list
RECURSIVE Flatten(_)
Flatten(bs) == IF bs = <<>> THEN <<>> ELSE Head(bs) \o Flatten(Tail(bs))

\* no batch raised: the batches done so far are non-empty consecutive slices
\* of at most loop_batch_size items that start at lst[resume_from:], and after
\* the loop they are all of it
BatchesPartition(input) ==
    ~batch_raised =>
        /\ \A b \in 1..Len(batches_done) :
              Len(batches_done[b]) \in 1..loop_batch_size
        /\ Flatten(batches_done) = SubSeq(input, 1, Len(Flatten(batches_done)))
        /\ total_processed = Len(Flatten(batches_done))
        /\ loop_pc = "done" =>
              /\ Flatten(batches_done) = input
              /\ total_processed = Len(input)

\* C21 as stated: for every resume_from the batches are consecutive disjoint
\* slices in increasing order that hold every item of lst[resume_from:]
\* exactly once, the processed count is the number of those items, and the
\* loop terminates.
C21_BatchesPartitionAnyResume ==
    BatchesPartition(PySlice(loop_total, loop_resume_from, loop_total))

\* C21, for resume_from >= 0: the batches are consecutive disjoint slices in
\* increasing order that hold every item from index resume_from to the end
\* exactly once, the processed count is the number of those items, and the
\* loop terminates.
C21_BatchesPartition ==
    /\ [](loop_resume_from >= 0 =>
             BatchesPartition(PySlice(loop_total, loop_resume_from, loop_total)))
    /\ <>(loop_pc \in {"done", "except"})

\* a resumed run took the rest of the list in two batches
C21_Witness ==
    /\ loop_pc = "done"
    /\ ~batch_raised
    /\ loop_resume_from = 1
    /\ loop_total = 3
    /\ batches_done = <<<<1>>, <<2>>>>
    /\ total_processed = 2

\* C22: during BootsScraper.run, whenever max_total_products is set, the
\* number of collected product urls (self.product_urls) never exceeds
\* max_total_products after any category has been processed, whatever
\* max_categories and max_products_per_category are, unset included.
C22_CollectedWithinTotal ==
    (TruthyInt(max_total_products) /\ Val(max_total_products) > 0)
        => Cardinality(self_product_urls) <= Val(max_total_products)

\* in how many of the three lists the url is, a second entry in failed_urls
\* counted too
PlacesOf(u) ==
    (IF \E pd \in BagToSet(all_product_data) : pd.url = Some(u) THEN 1 ELSE 0)
        + CopiesIn(u, failed_urls) + CopiesIn(u, redirect_urls)

\* C23: in the result loop each submitted url ends in exactly one of three
\* places: as a record in all_product_data, in failed_urls, or in
\* redirect_urls; none is in two of them and a collected one is in one, also
\* when saving progress or processing a result raises an exception.
C23_ExactlyOnePlace ==
    \A k \in 1..NumUrls :
        PlacesOf(RemainingUrl(k)) = IF k \in collected THEN 1 ELSE 0

\* C24: every element extract_ingredients_list returned for an updated row is
\* at least two characters long, begins and ends with an ASCII letter or
\* digit and holds no comma; the string process_batch stored, the list joined
\* with ', ', is split by main's JSON conversion into exactly that list, whose
\* length is the stored ingredients_count.
C24_JoinSplitRoundTrip ==
    \A k \in 1..Len(results) :
        RowHasIngredients(batch_df[k]) =>
            LET lst == FixTable[batch_df[k].ingredients.text].list
                stored == Val(results[k].ingredients_list)
            IN /\ \A n \in 1..Len(lst) :
                     /\ Len(lst[n]) >= 2
                     /\ Ch(lst[n], 1) \in AlnumSet
                     /\ Ch(lst[n], Len(lst[n])) \in AlnumSet
                     /\ \A c \in 1..Len(lst[n]) : Ch(lst[n], c) /= ","
               /\ stored \in DOMAIN JsonTable
               /\ JsonTable[stored] = lst
               /\ Val(results[k].ingredients_count) = Len(JsonTable[stored])

\* a row was updated from a text with a one-character item, an empty item and
\* symbols at the ends of items: three ingredients are stored
C24_Witness ==
    /\ Len(results) >= 1
    /\ batch_df[1].ingredients.text = "Aqua, B, , Zinc-Oxide 5%"
    /\ batch_df[1].ingredients.kind = "str"
    /\ results[1].ingredients_list = Some("Aqua, Zinc-Oxide 5")
    /\ results[1].ingredients_count = Some(2)

====
